---- MODULE Spec2Model ----
(***************************************************************************)
(* A model of the geen Merkle-mountain-range crate: the append-only MMR,   *)
(* the pruned hash set, the mutable MMR with its deletion bitmap, and the  *)
(* MerkleChangeTracker with its checkpoint log.                            *)
(*                                                                         *)
(* Hashes are modelled as their pre-images: a hash is a non-empty sequence *)
(* of integers, and hashing a list of hashes brackets their concatenation, *)
(* so the hash is collision free and H(a || b) = a.hash_with(b).           *)
(***************************************************************************)
EXTENDS Integers, Sequences, FiniteSets, TLC

\* ------------------------------------------------------------------------
\* Bounds of the model
\* ------------------------------------------------------------------------

\* scaled-down stand-in for std::u32::MAX, the ceiling of MutableMmr::size
U32_MAX == 10

\* number of changes a tracker run may make: a pushed or restored leaf and a
\* deletion are one change each
MaxChanges == 3

\* length of the checkpoint log beyond which no further commit is made
MaxLog == 1

\* largest leaf index a delete is called with
MaxDelIdx == 0

\* largest argument of rewind and replay
MaxSteps == 2

\* number of leaves of the standalone append-only MMR
MaxMmrLeaves == 6

\* number of leaves of the MMR that is read back and restored
MaxOpsLeaves == 5

\* number of leaves of the MMR that proofs are built for
MaxProofLeaves == 6

\* largest node position and MMR size handed to for_node and verify
MaxPos == 11

\* number of leaves of an MMR that is pruned
MaxBaseLeaves == 3

\* number of leaves pushed onto a pruned MMR
MaxPrunedPushes == 3

\* number of leaves of the MutableMmr that all public operations are called on
MaxMutLeaves == 2

\* number of leaves of the MutableMmr that is read with to_leaf_nodes
MaxSnapLeaves == 3

\* number of leaves of each of the two MutableMmr values that are compared
MaxPairLeaves == 3

\* number of leaves of the source MMR of calculate_pruned_mmr_root
MaxSrcLeaves == 2

\* length of the additions and of the deletions handed to
\* calculate_pruned_mmr_root and calculate_mmr_root
MaxCalcChanges == 2

\* number of items in the Vec and in the MemBackendVec
MaxVecLen == 3

\* the longest storage an MMR is created over
MaxStoredLen == 6

\* pushes on a tracker that was created over a stored base
MaxStoredPushes == 2

\* the longest checkpoint log the cache follows
MaxCacheLog == 3

\* the leaves of the MMR whose leaf ranges are read, and the largest first
\* index and count asked for
MaxRangeLeaves == 3

\* the leaves of the MMR whose proofs are verified for other nodes
MaxForgeLeaves == 4

\* the leaves of the MutableMmr that leaves are deleted from
MaxDeleteLeaves == 3

\* the largest max_history_len of the trackers whose log length is followed
MaxHistory == 2
MaxRange == 4

\* the leaf hashes that are pushed
Hashes == {<<1>>, <<2>>}

\* ------------------------------------------------------------------------
\* Hashing (mohan::hash, used through BlakeHasher and H256::hash_with)
\* ------------------------------------------------------------------------

None == <<>>

RECURSIVE Concat(_)
Concat(ss) == IF ss = <<>> THEN <<>> ELSE Head(ss) \o Concat(Tail(ss))

\* BlakeHasher::new().chain(h1)...chain(hn).finalize()
Blake(parts) == <<-1>> \o Concat(parts) \o <<-2>>

\* H256::hash_with
hash_with(l, r) == Blake(<<l, r>>)

\* the hash the tests push as leaf n; leaves differ from each other
int_to_hash(n) == <<n + 1>>

\* H256::zero()
null_hash == <<0>>

\* ------------------------------------------------------------------------
\* Index algebra (crate::algos)
\* ------------------------------------------------------------------------

RECURSIVE Pow2(_)
Pow2(n) == IF n = 0 THEN 1 ELSE 2 * Pow2(n - 1)

RECURSIVE BitLen(_)
BitLen(n) == IF n = 0 THEN 0 ELSE 1 + BitLen(n \div 2)

RECURSIVE count_ones(_)
count_ones(n) == IF n = 0 THEN 0 ELSE (n % 2) + count_ones(n \div 2)

\* ALL_ONES >> pos.leading_zeros(): the smallest 2^k - 1 that is >= pos
AllOnesFor(pos) == Pow2(BitLen(pos)) - 1

RECURSIVE PeakMapLoop(_, _, _)
PeakMapLoop(peak_size, pos, bitmap) ==
    IF peak_size = 0 THEN <<bitmap, pos>>
    ELSE IF pos >= peak_size
         THEN PeakMapLoop(peak_size \div 2, pos - peak_size, 2 * bitmap + 1)
         ELSE PeakMapLoop(peak_size \div 2, pos, 2 * bitmap)

\* (peak_map, height) of the position that is written next
peak_map_height(pos) ==
    IF pos = 0 THEN <<0, 0>> ELSE PeakMapLoop(AllOnesFor(pos), pos, 0)

bintree_height(pos) == IF pos = 0 THEN 0 ELSE peak_map_height(pos)[2]

is_leaf(pos) == bintree_height(pos) = 0

RECURSIVE FindPeaksLoop(_, _, _, _)
FindPeaksLoop(peak_size, num_left, sum_prev_peaks, peaks) ==
    IF peak_size = 0 THEN (IF num_left > 0 THEN <<>> ELSE peaks)
    ELSE IF num_left >= peak_size
         THEN FindPeaksLoop(peak_size \div 2, num_left - peak_size,
                            sum_prev_peaks + peak_size,
                            Append(peaks, sum_prev_peaks + peak_size - 1))
         ELSE FindPeaksLoop(peak_size \div 2, num_left, sum_prev_peaks, peaks)

\* positions of the peaks of an MMR of `size` nodes, left to right
find_peaks(size) ==
    IF size = 0 THEN <<>> ELSE FindPeaksLoop(AllOnesFor(size), size, 0, <<>>)

RECURSIVE NLeavesLoop(_, _, _)
NLeavesLoop(peak_size, size_left, acc) ==
    IF peak_size = 0 THEN (IF size_left = 0 THEN acc ELSE acc + 1)
    ELSE IF size_left >= peak_size
         THEN NLeavesLoop(peak_size \div 2, size_left - peak_size,
                          acc + (peak_size + 1) \div 2)
         ELSE NLeavesLoop(peak_size \div 2, size_left, acc)

\* number of leaves of an MMR of `size` nodes
n_leaves(size) ==
    IF size = 0 THEN 0 ELSE NLeavesLoop(AllOnesFor(size), size, 0)

\* node position of the n-th leaf
leaf_index(n) == IF n = 0 THEN 0 ELSE 2 * n - count_ones(n)

\* peak_map & (1 << height) != 0: the position is a right sibling
PeakBitSet(pos) ==
    LET pmh == peak_map_height(pos)
    IN  (pmh[1] \div Pow2(pmh[2])) % 2 = 1

\* (parent, sibling) of a position
family(pos) ==
    LET peak == Pow2(peak_map_height(pos)[2])
    IN  IF PeakBitSet(pos) THEN <<pos + 1, pos + 1 - 2 * peak>>
        ELSE <<pos + 2 * peak, pos + 2 * peak - 1>>

is_left_sibling(pos) == ~PeakBitSet(pos)

RECURSIVE FamilyBranchLoop(_, _, _, _, _)
FamilyBranchLoop(current, last_pos, peak, peak_map, branch) ==
    IF current >= last_pos THEN branch
    ELSE LET right == (peak_map \div peak) % 2 = 1
             parent == IF right THEN current + 1 ELSE current + 2 * peak
             sibling == IF right THEN parent - 2 * peak ELSE parent - 1
         IN  IF parent > last_pos THEN branch
             ELSE FamilyBranchLoop(parent, last_pos, 2 * peak, peak_map,
                                   Append(branch, <<parent, sibling>>))

\* the (parent, sibling) pairs from a position up to its local peak
family_branch(pos, last_pos) ==
    LET pmh == peak_map_height(pos)
    IN  FamilyBranchLoop(pos, last_pos, Pow2(pmh[2]), pmh[1], <<>>)

\* ------------------------------------------------------------------------
\* Storage backends: Vec<H256> and PrunedHashSet
\* ------------------------------------------------------------------------

\* A backend is a record; a Vec keeps everything in `hashes`, a pruned hash
\* set keeps the peaks of the frozen prefix and the hashes pushed after it.
VecStorage(items) ==
    [kind |-> "vec", base_offset |-> 0, peak_indices |-> <<>>,
     peak_hashes |-> <<>>, hashes |-> items]

\* Storage::len
StLen(s) ==
    IF s.kind = "vec" THEN Len(s.hashes) ELSE s.base_offset + Len(s.hashes)

\* Storage::push (the index of the stored item is StLen - 1 afterwards)
StPush(s, item) == [s EXCEPT !.hashes = Append(@, item)]

\* binary_search over peak_indices
PeakSlot(s, index) ==
    {n \in 1..Len(s.peak_indices) : s.peak_indices[n] = index}

\* Storage::get, None when absent
StGet(s, index) ==
    IF s.kind = "vec"
    THEN (IF index >= 0 /\ index < Len(s.hashes) THEN s.hashes[index + 1] ELSE None)
    ELSE IF index < s.base_offset
         THEN (IF PeakSlot(s, index) # {}
               THEN s.peak_hashes[CHOOSE n \in PeakSlot(s, index) : TRUE]
               ELSE None)
         ELSE (IF index - s.base_offset < Len(s.hashes)
               THEN s.hashes[index - s.base_offset + 1]
               ELSE None)

\* Storage::get_or_panic; None stands for the panic
StGetOrPanic(s, index) == StGet(s, index)

\* Storage::clear
StClear(s) ==
    [s EXCEPT !.base_offset = 0, !.peak_indices = <<>>,
              !.peak_hashes = <<>>, !.hashes = <<>>]

\* ------------------------------------------------------------------------
\* MerkleMountainRange<B>
\* ------------------------------------------------------------------------

RECURSIVE PushLoopSwapped(_, _, _, _)
\* PushLoop hashing the right sibling before the left one
PushLoopSwapped(st, pos, peak, peak_map) ==
    IF (peak_map \div peak) % 2 = 1
    THEN LET left_sibling == pos + 1 - 2 * peak
             left_hash == StGetOrPanic(st, left_sibling)
             hash_count == StLen(st)
             last_hash == StGetOrPanic(st, hash_count - 1)
         IN  IF left_hash = None \/ last_hash = None
             THEN [st |-> st, ret |-> pos, err |-> "panic"]
             ELSE PushLoopSwapped(StPush(st, hash_with(last_hash, left_hash)),
                                  pos + 1, peak * 2, peak_map)
    ELSE [st |-> st, ret |-> pos, err |-> "ok"]

RECURSIVE PushLoop(_, _, _, _)
PushLoop(st, pos, peak, peak_map) ==
    IF (peak_map \div peak) % 2 = 1
    THEN LET left_sibling == pos + 1 - 2 * peak
             left_hash == StGetOrPanic(st, left_sibling)
             hash_count == StLen(st)
             last_hash == StGetOrPanic(st, hash_count - 1)
         IN  IF left_hash = None \/ last_hash = None
             THEN [st |-> st, ret |-> pos, err |-> "panic"]
             ELSE PushLoop(StPush(st, hash_with(left_hash, last_hash)),
                           pos + 1, peak * 2, peak_map)
    ELSE [st |-> st, ret |-> pos, err |-> "ok"]

\* a push that looks at the height only after it stored the hash
MmrPushBeforeCheck(st, hash) ==
    IF StLen(st) = 0
    THEN [st |-> StPush(st, hash), ret |-> StLen(st), err |-> "ok"]
    ELSE LET pos == StLen(st)
             pmh == peak_map_height(pos)
         IN  IF pmh[2] # 0
             THEN [st |-> StPush(st, hash), ret |-> 0,
                   err |-> "CorruptDataStructure"]
             ELSE PushLoop(StPush(st, hash), pos, 1, pmh[1])

\* MerkleMountainRange::push: the new storage, the returned value, the error
MmrPush(st, hash) ==
    IF StLen(st) = 0
    THEN [st |-> StPush(st, hash), ret |-> StLen(st), err |-> "ok"]
    ELSE LET pos == StLen(st)
             pmh == peak_map_height(pos)
         IN  IF pmh[2] # 0
             THEN [st |-> st, ret |-> 0, err |-> "CorruptDataStructure"]
             ELSE PushLoop(StPush(st, hash), pos, 1, pmh[1])

\* MerkleMountainRange::get_leaf_count
MmrLeafCount(st) == n_leaves(StLen(st))

\* Option::Some
Some(x) == <<x>>

\* MerkleMountainRange::get_node_hash
get_node_hash(st, node_index) == StGet(st, node_index)

\* MerkleMountainRange::get_leaf_hash
get_leaf_hash(st, leaf_node_index) == get_node_hash(st, leaf_index(leaf_node_index))

RECURSIVE LeafHashesLoop(_, _, _)
\* the loop of get_leaf_hashes over index..=last_index; absent leaves are skipped
LeafHashesLoop(st, index, last_index) ==
    IF index > last_index THEN <<>>
    ELSE LET hash == get_leaf_hash(st, index)
         IN  (IF hash = None THEN <<>> ELSE <<hash>>)
             \o LeafHashesLoop(st, index + 1, last_index)

\* MerkleMountainRange::get_leaf_hashes
get_leaf_hashes(st, index, count) ==
    LET leaf_count == MmrLeafCount(st)
        count1 == IF count < 1 THEN 1 ELSE count
        last_index == IF index + count1 - 1 <= leaf_count
                      THEN index + count1 - 1 ELSE leaf_count
    IN  IF index >= leaf_count THEN <<>>
        ELSE LeafHashesLoop(st, index, last_index)

\* a stored hash that is a leaf: parents are hashes of two children
IsLeafHash(h) == Len(h) = 1

\* the leaf hashes among stored hashes, in the order they were pushed
LeavesOf(hashes) == SelectSeq(hashes, IsLeafHash)

RECURSIVE FindLoop(_, _, _)
\* the loop of find_leaf_node from node i on; get_or_panic of an absent node
\* panics
FindLoop(st, hash, i) ==
    IF i >= StLen(st) THEN [ret |-> None, err |-> "ok"]
    ELSE IF StGetOrPanic(st, i) = None THEN [ret |-> None, err |-> "panic"]
    ELSE IF hash = StGetOrPanic(st, i) THEN [ret |-> Some(i), err |-> "ok"]
    ELSE FindLoop(st, hash, i + 1)

\* MerkleMountainRange::find_leaf_node
find_leaf_node(st, hash) == FindLoop(st, hash, 0)

\* get_merkle_root that chains the peaks right to left
MmrRootRightToLeft(st) ==
    IF StLen(st) = 0 THEN null_hash
    ELSE LET peaks == find_peaks(StLen(st))
             hs == [i \in 1..Len(peaks) |->
                        StGetOrPanic(st, peaks[Len(peaks) + 1 - i])]
         IN  IF \E i \in 1..Len(peaks) : hs[i] = None THEN None ELSE Blake(hs)

\* MerkleMountainRange::get_merkle_root (hash_to_root reads the peaks with
\* get_or_panic; None stands for the panic)
MmrRoot(st) ==
    IF StLen(st) = 0 THEN null_hash
    ELSE LET peaks == find_peaks(StLen(st))
             hs == [i \in 1..Len(peaks) |-> StGetOrPanic(st, peaks[i])]
         IN  IF \E i \in 1..Len(peaks) : hs[i] = None THEN None ELSE Blake(hs)

\* the check validate makes of one node
NodeCheck(st, n) ==
    LET height == bintree_height(n)
        hash == StGet(st, n)
        left_child_hash == StGet(st, n - Pow2(height))
        right_child_hash == StGet(st, n - 1)
    IN  IF height = 0 THEN "ok"
        ELSE IF hash = None \/ left_child_hash = None \/ right_child_hash = None
             THEN "CorruptDataStructure"
             ELSE IF hash_with(left_child_hash, right_child_hash) # hash
                  THEN "InvalidMerkleTree"
                  ELSE "ok"

\* MerkleMountainRange::validate: the error of the first failing node
validate(st) ==
    LET bad == {n \in 0..(StLen(st) - 1) : NodeCheck(st, n) # "ok"}
    IN  IF bad = {} THEN "ok"
        ELSE NodeCheck(st, CHOOSE n \in bad : \A m \in bad : n <= m)

RECURSIVE MmrPushAll(_, _)
\* the `?` after a push in restore: `r` is the outcome of the push
MmrPushNext(r, rest) ==
    IF r.err # "ok" THEN [st |-> r.st, err |-> r.err]
    ELSE MmrPushAll(r.st, rest)

\* pushes in order, stopping at the first error
MmrPushAll(st, hs) ==
    IF hs = <<>> THEN [st |-> st, err |-> "ok"]
    ELSE MmrPushNext(MmrPush(st, Head(hs)), Tail(hs))

\* a restore that keeps what the storage holds
MmrRestoreWithoutClear(st, leaf_hashes) == MmrPushAll(st, leaf_hashes)

\* MerkleMountainRange::restore
MmrRestore(st, leaf_hashes) == MmrPushAll(StClear(st), leaf_hashes)

\* ------------------------------------------------------------------------
\* Bitmap (croaring), one container: the set and its container type
\* ------------------------------------------------------------------------

\* Bitmap::create
BitmapCreate == [bits |-> {}, run |-> FALSE]

NumRuns(bits) == Cardinality({x \in bits : (x - 1) \notin bits})

\* serialized sizes the optimizer compares
SizeAsRun(bits) == 2 + 4 * NumRuns(bits)
SizeAsArray(bits) == 2 + 2 * Cardinality(bits)

\* a run container stays one while it is not larger than the array form
KeepRun(bits) == bits # {} /\ SizeAsRun(bits) <= SizeAsArray(bits)

\* Bitmap::add keeps the container type
BitmapAdd(b, x) == [bits |-> b.bits \cup {x}, run |-> b.run]

\* Bitmap::run_optimize
RunOptimize(b) ==
    [bits |-> b.bits,
     run |-> IF b.run THEN KeepRun(b.bits)
             ELSE b.bits # {} /\ SizeAsRun(b.bits) < SizeAsArray(b.bits)]

\* Bitmap::remove_range_closed(lo..hi): both ends are removed; a container
\* keeps its type while it has values
RemoveRangeClosed(b, lo, hi) ==
    LET bits == {x \in b.bits : x < lo \/ x > hi}
    IN  [bits |-> bits, run |-> b.run /\ bits # {}]

\* Bitmap::or_inplace
OrInplace(a, b) ==
    IF b.bits = {} THEN a
    ELSE IF a.bits = {} THEN b
    ELSE [bits |-> a.bits \cup b.bits,
          run |-> (a.run \/ b.run) /\ KeepRun(a.bits \cup b.bits)]

RECURSIVE SortedSeq(_)
SortedSeq(S) ==
    IF S = {} THEN <<>>
    ELSE LET m == CHOOSE x \in S : \A y \in S : x <= y
         IN  <<m>> \o SortedSeq(S \ {m})

RECURSIVE RunEnd(_, _)
RunEnd(bits, x) == IF (x + 1) \in bits THEN RunEnd(bits, x + 1) ELSE x

RECURSIVE RunPairs(_, _)
RunPairs(bits, starts) ==
    IF starts = <<>> THEN <<>>
    ELSE <<Head(starts), RunEnd(bits, Head(starts)) - Head(starts)>>
         \o RunPairs(bits, Tail(starts))

\* Bitmap::serialize: the bytes depend on the container type
Serialize(b) ==
    IF b.run
    THEN <<-4>> \o RunPairs(b.bits, SortedSeq({x \in b.bits : (x - 1) \notin b.bits}))
    ELSE <<-3>> \o SortedSeq(b.bits)

\* ------------------------------------------------------------------------
\* MutableMmr<B>
\* ------------------------------------------------------------------------

\* MutableMmr::new
MutNew(backend) == [mmr |-> backend, deleted |-> BitmapCreate, size |-> 0]

\* MutableMmr::push after self.mmr.push returned `result`
MutPushed(m, result) ==
    LET size == IF result.err = "ok" THEN m.size + 1 ELSE m.size
    IN  [m |-> [m EXCEPT !.mmr = result.st, !.size = size],
         ret |-> size,
         err |-> IF result.err = "panic" THEN "panic" ELSE "ok"]

\* a push that is refused only above the ceiling
MutPushAboveMax(m, hash) ==
    IF m.size > U32_MAX
    THEN [m |-> m, ret |-> 0, err |-> "MaximumSizeReached"]
    ELSE MutPushed(m, MmrPush(m.mmr, hash))

\* MutableMmr::push: the new value, Ok(size) or the error
MutPush(m, hash) ==
    IF m.size >= U32_MAX
    THEN [m |-> m, ret |-> 0, err |-> "MaximumSizeReached"]
    ELSE MutPushed(m, MmrPush(m.mmr, hash))

\* MutableMmr::compress
MutCompress(m) == [m EXCEPT !.deleted = RunOptimize(@)]

\* a delete that also takes the leaf out of the leaf count
MutDeleteAndShrink(m, leaf_node_index, compress) ==
    IF leaf_node_index >= m.size \/ leaf_node_index \in m.deleted.bits
    THEN [m |-> m, ret |-> FALSE]
    ELSE [m |-> [m EXCEPT !.deleted = BitmapAdd(@, leaf_node_index),
                          !.size = @ - 1],
          ret |-> TRUE]

\* MutableMmr::delete_and_compress: the new value and the returned bool
MutDeleteAndCompress(m, leaf_node_index, compress) ==
    IF leaf_node_index >= m.size \/ leaf_node_index \in m.deleted.bits
    THEN [m |-> m, ret |-> FALSE]
    ELSE LET d == [m EXCEPT !.deleted = BitmapAdd(@, leaf_node_index)]
         IN  [m |-> IF compress THEN MutCompress(d) ELSE d, ret |-> TRUE]

\* MutableMmr::get_leaf_hash
MutGetLeafHash(m, leaf_node_index) ==
    IF leaf_node_index \in m.deleted.bits THEN None
    ELSE get_node_hash(m.mmr, leaf_index(leaf_node_index))

\* MutableMmr::get_leaf_status: the hash and the deletion status
get_leaf_status(m, leaf_node_index) ==
    <<get_node_hash(m.mmr, leaf_index(leaf_node_index)),
      leaf_node_index \in m.deleted.bits>>

\* MutableMmr::get_mmr_only_root
MutMmrOnlyRoot(m) == MmrRoot(m.mmr)

\* a root that leaves the deleted set out
HashWithoutDeleted(mmr_root, deleted) ==
    IF mmr_root = None THEN None ELSE Blake(<<mmr_root>>)

\* MutableMmr::hash_deleted on a hasher that holds the MMR root
hash_deleted(mmr_root, deleted) ==
    IF mmr_root = None THEN None
    ELSE Blake(<<mmr_root, Serialize(deleted)>>)

\* MutableMmr::get_merkle_root
MutRoot(m) == hash_deleted(MmrRoot(m.mmr), m.deleted)

\* MutableMmr::restore from a MutableMmrLeafNodes value
MutRestored(m, state, r) ==
    IF r.err # "ok"
    THEN [m |-> [m EXCEPT !.mmr = r.st], err |-> r.err]
    ELSE [m |-> [mmr |-> r.st, deleted |-> state.deleted,
                 size |-> MmrLeafCount(r.st) % (U32_MAX + 1)],
          err |-> "ok"]

\* a restore that takes the leaves and keeps its own deleted set
MutRestoreLeavesOnly(m, state) ==
    MutRestored(m, [state EXCEPT !.deleted = m.deleted],
                MmrRestore(m.mmr, state.leaf_hashes))

MutRestore(m, state) ==
    MutRestored(m, state, MmrRestore(m.mmr, state.leaf_hashes))

\* MutableMmr::len: a subtraction in u32
MutLen(m) == (m.size - Cardinality(m.deleted.bits)) % (U32_MAX + 1)

\* MutableMmr::is_empty
MutIsEmpty(m) == StLen(m.mmr) = 0 \/ Cardinality(m.deleted.bits) = m.size

\* MutableMmr::get_leaf_count
MutGetLeafCount(m) == m.size

\* MutableMmr::get_sub_bitmap. `index + count - 1` leaves usize when index
\* and count are both zero: a build with overflow checks panics there, a
\* build without them wraps to usize::MAX, which is below no leaf count
get_sub_bitmap(m, index, count, overflow_checks) ==
    LET below == IF index > 0
                 THEN RemoveRangeClosed(m.deleted, 0, index - 1)
                 ELSE m.deleted
        leaf_count == MmrLeafCount(m.mmr)
        last_index == index + count - 1
    IN  IF leaf_count > 1 /\ index + count = 0
        THEN [deleted |-> below,
              err |-> IF overflow_checks THEN "panic" ELSE "ok"]
        ELSE IF leaf_count > 1 /\ last_index < leaf_count - 1
        THEN [deleted |-> RemoveRangeClosed(below, last_index + 1, leaf_count),
              err |-> "ok"]
        ELSE [deleted |-> below, err |-> "ok"]

\* MutableMmrLeafNodes::new
MutableMmrLeafNodes(leaf_hashes, deleted) ==
    [leaf_hashes |-> leaf_hashes, deleted |-> deleted]

\* MutableMmr::to_leaf_nodes after get_sub_bitmap returned `sub`
LeafNodesWith(m, index, count, sub) ==
    [state |-> MutableMmrLeafNodes(get_leaf_hashes(m.mmr, index, count),
                                   sub.deleted),
     err |-> sub.err]

\* MutableMmr::to_leaf_nodes
to_leaf_nodes(m, index, count, overflow_checks) ==
    LeafNodesWith(m, index, count,
                  get_sub_bitmap(m, index, count, overflow_checks))

\* a combine that keeps its own deleted set
CombineLeafHashesOnly(self, next_state) ==
    MutableMmrLeafNodes(self.leaf_hashes \o next_state.leaf_hashes, self.deleted)

\* MutableMmrLeafNodes::combine
combine(self, next_state) ==
    MutableMmrLeafNodes(self.leaf_hashes \o next_state.leaf_hashes,
                        OrInplace(self.deleted, next_state.deleted))

\* PartialEq of MutableMmrLeafNodes: the hashes, and the bitmaps as sets
LeafNodesEq(a, b) ==
    a.leaf_hashes = b.leaf_hashes /\ a.deleted.bits = b.deleted.bits

\* MerkleMountainRange::clear
MmrClear(st) == StClear(st)

\* MutableMmr::clear
MutClear(m) == [mmr |-> MmrClear(m.mmr), deleted |-> BitmapCreate, size |-> 0]

\* PartialEq of MutableMmr
MutEq(a, b) == MutRoot(a) = MutRoot(b)

\* ------------------------------------------------------------------------
\* Pruning
\* ------------------------------------------------------------------------

\* a pruned hash set that keeps the hash of the first peak for every peak
PrunedFromFirstPeak(st) ==
    LET base_offset == StLen(st)
        peak_indices == find_peaks(base_offset)
    IN  [kind |-> "pruned", base_offset |-> base_offset,
         peak_indices |-> peak_indices,
         peak_hashes |-> [i \in 1..Len(peak_indices) |-> StGet(st, peak_indices[1])],
         hashes |-> <<>>]

\* a pruned hash set that keeps every peak of its source but the last
PrunedFromInnerPeaks(st) ==
    LET base_offset == StLen(st)
        peaks == find_peaks(base_offset)
        peak_indices == SubSeq(peaks, 1, Len(peaks) - 1)
    IN  [kind |-> "pruned", base_offset |-> base_offset,
         peak_indices |-> peak_indices,
         peak_hashes |-> [i \in 1..Len(peak_indices) |-> StGet(st, peak_indices[i])],
         hashes |-> <<>>]

\* PrunedHashSet::try_from(&MerkleMountainRange); None when a peak is absent
PrunedFrom(st) ==
    LET base_offset == StLen(st)
        peak_indices == find_peaks(base_offset)
        peak_hashes == [i \in 1..Len(peak_indices) |-> StGet(st, peak_indices[i])]
    IN  IF \E i \in 1..Len(peak_indices) : peak_hashes[i] = None THEN None
        ELSE [kind |-> "pruned", base_offset |-> base_offset,
              peak_indices |-> peak_indices, peak_hashes |-> peak_hashes,
              hashes |-> <<>>]

\* prune_mmr
prune_mmr(st) == PrunedFrom(st)

\* a pruned copy that keeps no peaks of its source
PruneClearedMmr(m) ==
    [mmr |-> PrunedFrom(StClear(m.mmr)), deleted |-> m.deleted,
     size |-> m.size]

\* prune_mutable_mmr
prune_mutable_mmr(m) ==
    [mmr |-> PrunedFrom(m.mmr), deleted |-> m.deleted, size |-> m.size]

RECURSIVE MutMarkAll(_, _)
\* delete_and_compress(index, false) for each index of the deletions
MutMarkAll(m, deletions) ==
    IF deletions = <<>> THEN m
    ELSE MutMarkAll(MutDeleteAndCompress(m, Head(deletions), FALSE).m,
                    Tail(deletions))

RECURSIVE MutDeleteAll(_, _)
\* `pruned_mmr.delete(index)` for each index of the deletions
MutDeleteAll(m, deletions) ==
    IF deletions = <<>> THEN m
    ELSE MutDeleteAll(MutDeleteAndCompress(m, Head(deletions), TRUE).m,
                      Tail(deletions))

RECURSIVE MutPushAll(_, _)
\* the `?` after `pruned_mmr.push(&hash)`: `r` is the outcome of the push
MutPushAllNext(r, rest) ==
    IF r.err # "ok" THEN [m |-> r.m, err |-> r.err]
    ELSE MutPushAll(r.m, rest)

\* `pruned_mmr.push(&hash)?` for each hash of the additions
MutPushAll(m, additions) ==
    IF additions = <<>> THEN [m |-> m, err |-> "ok"]
    ELSE MutPushAllNext(MutPush(m, Head(additions)), Tail(additions))

\* calculate_pruned_mmr_root after the additions were pushed with outcome `r`
CalculatedRoot(r, deletions) ==
    IF r.err # "ok" THEN [ret |-> None, err |-> r.err]
    ELSE [ret |-> MutRoot(MutDeleteAll(r.m, deletions)), err |-> "ok"]

\* a calculation that deletes before it pushes
CalculateDeletionsFirst(src, additions, deletions) ==
    CalculatedRoot(MutPushAll(MutDeleteAll(prune_mutable_mmr(src), deletions),
                              additions), <<>>)

\* calculate_pruned_mmr_root
calculate_pruned_mmr_root(src, additions, deletions) ==
    CalculatedRoot(MutPushAll(prune_mutable_mmr(src), additions), deletions)

\* calculate_mmr_root after the additions were pushed with outcome `r`
CalculatedMmrRoot(r) ==
    IF r.err # "ok" THEN [ret |-> None, err |-> r.err]
    ELSE [ret |-> MmrRoot(r.st), err |-> "ok"]

\* calculate_mmr_root
calculate_mmr_root(src, additions) ==
    CalculatedMmrRoot(MmrPushAll(prune_mmr(src), additions))

\* ------------------------------------------------------------------------
\* MerkleProof
\* ------------------------------------------------------------------------

\* struct MerkleProof
MerkleProof(mmr_size, path, peaks) ==
    [mmr_size |-> mmr_size, path |-> path, peaks |-> peaks]

\* MerkleProof::default
DefaultProof == MerkleProof(0, <<>>, <<>>)

\* Err(e) of a proof construction; `at` is the position HashNotFound carries
ProofErr(e, at) == [proof |-> DefaultProof, err |-> e, at |-> at]

\* the first position of `positions` without a hash in the MMR, or -1
FirstAbsent(st, positions) ==
    LET absent == {i \in 1..Len(positions) : get_node_hash(st, positions[i]) = None}
    IN  IF absent = {} THEN -1
        ELSE positions[CHOOSE i \in absent : \A j \in absent : i <= j]

\* the members of `positions` other than `skip`, in order
RECURSIVE Without(_, _)
Without(positions, skip) ==
    IF positions = <<>> THEN <<>>
    ELSE (IF Head(positions) = skip THEN <<>> ELSE <<Head(positions)>>)
         \o Without(Tail(positions), skip)

\* MerkleProof::generate_proof
generate_proof(st, pos) ==
    IF get_node_hash(st, pos) = None THEN ProofErr("HashNotFound", pos)
    ELSE LET mmr_size == StLen(st)
             branch == family_branch(pos, mmr_size)
             siblings == [i \in 1..Len(branch) |-> branch[i][2]]
             peak_pos == IF branch = <<>> THEN pos ELSE branch[Len(branch)][1]
             peaks == find_peaks(mmr_size)
             others == Without(peaks, peak_pos)
         IN  IF FirstAbsent(st, siblings) # -1
             THEN ProofErr("HashNotFound", FirstAbsent(st, siblings))
             ELSE IF peaks = <<>> THEN ProofErr("panic", -1)
             ELSE IF FirstAbsent(st, others) # -1
             THEN ProofErr("HashNotFound", FirstAbsent(st, others))
             ELSE [proof |-> MerkleProof(
                                 mmr_size,
                                 [i \in 1..Len(siblings) |-> get_node_hash(st, siblings[i])],
                                 [i \in 1..Len(others) |-> get_node_hash(st, others[i])]),
                   err |-> "ok", at |-> -1]

\* for_node without the check that the position is a leaf
ForNodeUnchecked(st, pos) == generate_proof(st, pos)

\* MerkleProof::for_node
for_node(st, pos) ==
    IF ~is_leaf(pos) THEN ProofErr("NonLeafNode", -1)
    ELSE generate_proof(st, pos)

\* MerkleProof::for_leaf_node
for_leaf_node(st, leaf_pos) == generate_proof(st, leaf_index(leaf_pos))

RECURSIVE CheckRootFold(_, _, _, _, _)
\* the fold of check_root: `peak_hashes` is what the iterator still holds and
\* `acc` what was chained; next().unwrap() on a drained iterator panics
CheckRootFold(peaks, peak_hashes, hash, pos, acc) ==
    IF peaks = <<>> THEN [hash |-> Blake(acc), err |-> "ok"]
    ELSE IF Head(peaks) = pos
         THEN CheckRootFold(Tail(peaks), peak_hashes, hash, pos, Append(acc, hash))
         ELSE IF peak_hashes = <<>> THEN [hash |-> None, err |-> "panic"]
              ELSE CheckRootFold(Tail(peaks), Tail(peak_hashes), hash, pos,
                                 Append(acc, Head(peak_hashes)))

\* MerkleProof::check_root
check_root(proof, hash, pos, peaks) ==
    IF Len(peaks) # Len(proof.peaks) + 1
    THEN [hash |-> None, err |-> "IncorrectPeakMap"]
    ELSE CheckRootFold(peaks, proof.peaks, hash, pos, <<>>)

\* the end of verify_consume, once check_root returned `r`
RootChecked(root, r) ==
    IF r.err # "ok" THEN r.err
    ELSE IF root = r.hash THEN "ok" ELSE "RootMismatch"

RECURSIVE VerifyConsumeSwapped(_, _, _, _, _)
\* verify_consume that puts the sibling on the wrong side
VerifyConsumeSwapped(proof, root, hash, pos, peaks) ==
    IF proof.path = <<>> THEN RootChecked(root, check_root(proof, hash, pos, peaks))
    ELSE LET sibling == Head(proof.path)
             fam == family(pos)
         IN  IF fam[1] > proof.mmr_size THEN "Unexpected"
             ELSE VerifyConsumeSwapped(
                      [proof EXCEPT !.path = Tail(@)], root,
                      IF is_left_sibling(fam[2]) THEN hash_with(hash, sibling)
                      ELSE hash_with(sibling, hash),
                      fam[1], peaks)

RECURSIVE verify_consume(_, _, _, _, _)
\* MerkleProof::verify_consume
verify_consume(proof, root, hash, pos, peaks) ==
    IF proof.path = <<>> THEN RootChecked(root, check_root(proof, hash, pos, peaks))
    ELSE LET sibling == Head(proof.path)
             fam == family(pos)
         IN  IF fam[1] > proof.mmr_size THEN "Unexpected"
             ELSE verify_consume(
                      [proof EXCEPT !.path = Tail(@)], root,
                      IF is_left_sibling(fam[2]) THEN hash_with(sibling, hash)
                      ELSE hash_with(hash, sibling),
                      fam[1], peaks)

\* MerkleProof::verify
verify(proof, root, hash, pos) ==
    verify_consume(proof, root, hash, pos, find_peaks(proof.mmr_size))

\* MerkleProof::verify_leaf
verify_leaf(proof, root, hash, leaf_pos) ==
    verify(proof, root, hash, leaf_index(leaf_pos))

\* ------------------------------------------------------------------------
\* MerkleCheckPoint
\* ------------------------------------------------------------------------

\* a checkpoint that loses its deletions
CheckPointWithoutDeletions(nodes_added, nodes_deleted) ==
    [nodes_added |-> nodes_added, nodes_deleted |-> BitmapCreate]

\* MerkleCheckPoint::new
CheckPoint(nodes_added, nodes_deleted) ==
    [nodes_added |-> nodes_added, nodes_deleted |-> nodes_deleted]

RECURSIVE ApplyAdds(_, _)
\* `mmr.push(node)?` in MerkleCheckPoint::apply: `r` is the outcome of the push
ApplyAddsNext(r, rest) ==
    IF r.err # "ok" THEN [m |-> r.m, err |-> r.err]
    ELSE ApplyAdds(r.m, rest)

\* the loop of MerkleCheckPoint::apply; `?` returns at the first error
ApplyAdds(m, nodes) ==
    IF nodes = <<>> THEN [m |-> m, err |-> "ok"]
    ELSE ApplyAddsNext(MutPush(m, Head(nodes)), Tail(nodes))

\* MerkleCheckPoint::apply after its loop: the deleted set is or-ed in, not
\* compressed
ApplyDeletions(cp, r) ==
    IF r.err # "ok" THEN r
    ELSE [m |-> [r.m EXCEPT !.deleted = OrInplace(@, cp.nodes_deleted)],
          err |-> "ok"]

\* MerkleCheckPoint::apply
Apply(cp, m) == ApplyDeletions(cp, ApplyAdds(m, cp.nodes_added))

RECURSIVE ApplyAllPastErrors(_, _)
\* carries on with the next checkpoint after an error
ApplyAllPastErrorsNext(r, rest) ==
    IF r.err # "ok" THEN [m |-> ApplyAllPastErrors(r.m, rest).m, err |-> r.err]
    ELSE ApplyAllPastErrors(r.m, rest)

\* applies checkpoints in order and carries on after an error
ApplyAllPastErrors(m, cps) ==
    IF cps = <<>> THEN [m |-> m, err |-> "ok"]
    ELSE ApplyAllPastErrorsNext(Apply(Head(cps), m), Tail(cps))

RECURSIVE ApplyAll(_, _)
\* after a checkpoint was applied with outcome `r`: an error ends the loop
ApplyAllNext(r, rest) ==
    IF r.err # "ok" THEN r ELSE ApplyAll(r.m, rest)

\* applies checkpoints in order; stops at the first error
ApplyAll(m, cps) ==
    IF cps = <<>> THEN [m |-> m, err |-> "ok"]
    ELSE ApplyAllNext(Apply(Head(cps), m), Tail(cps))

Min(a, b) == IF a <= b THEN a ELSE b

\* a truncate that drops nothing
TruncateKeepsAll(v, len) == v

\* StorageExt::truncate
Truncate(v, len) == SubSeq(v, 1, Min(len, Len(v)))

\* StorageExt::shift
Shift(v, n) == SubSeq(v, Min(n, Len(v)) + 1, Len(v))

\* ------------------------------------------------------------------------
\* Vec<T> and MemBackendVec<T> as Storage and StorageExt
\* ------------------------------------------------------------------------

\* Storage::len for Vec
VecLen(v) == Len(v)

\* Storage::push for Vec: the new vector and the returned index
VecPushItem(v, item) ==
    LET pushed == Append(v, item)
    IN  [v |-> pushed, ret |-> VecLen(pushed) - 1]

\* Storage::get for Vec
VecGet(v, index) == IF index < Len(v) THEN Some(v[index + 1]) ELSE None

\* Storage::clear for Vec
VecClear(v) == <<>>

\* StorageExt::for_each for Vec: the values the closure is called with
VecForEach(v) == [i \in 1..Len(v) |-> v[i]]

\* MemBackendVec::new and what pushes make of it
MemBackendVec(items) == [db |-> items]

\* Storage::len for MemBackendVec
MemLen(d) == Len(d.db)

\* a push that returns the new length
MemPushReturnsLen(d, item) ==
    LET pushed == [db |-> Append(d.db, item)]
    IN  [d |-> pushed, ret |-> MemLen(pushed)]

\* Storage::push for MemBackendVec: the new backend and the returned index
MemPush(d, item) ==
    LET pushed == [db |-> Append(d.db, item)]
    IN  [d |-> pushed, ret |-> MemLen(pushed) - 1]

\* Storage::get for MemBackendVec
MemGet(d, index) == VecGet(d.db, index)

\* Storage::clear for MemBackendVec
MemClear(d) == [db |-> <<>>]

\* StorageExt::truncate for MemBackendVec
MemTruncate(d, len) == [db |-> SubSeq(d.db, 1, Min(len, Len(d.db)))]

\* StorageExt::shift for MemBackendVec
MemShift(d, n) ==
    LET drain_n == Min(n, MemLen(d))
    IN  [db |-> SubSeq(d.db, drain_n + 1, Len(d.db))]

\* StorageExt::for_each for MemBackendVec: the values the closure is called with
MemForEach(d) == [i \in 1..Len(d.db) |-> d.db[i]]

\* ------------------------------------------------------------------------
\* The cache-style update of the tracker over a shared checkpoint log
\* ------------------------------------------------------------------------

\* a tracker over an empty base and an empty log; `changed` tells what was
\* done to the log since the last update, `followed` that no update so far
\* came after a log that was both truncated and grown
MmrCacheNew(min_history) ==
    [base_mmr |-> MutNew(VecStorage(<<>>)),
     curr_mmr |-> prune_mutable_mmr(MutNew(VecStorage(<<>>))),
     base_cp_index |-> 0, curr_cp_index |-> 0,
     min_history |-> min_history, changed |-> "none", followed |-> TRUE]

\* the number of checkpoints that are past the last min_history ones
ExcessPastMinHistory(c, cp_count) ==
    IF cp_count > c.min_history THEN cp_count - c.min_history ELSE 0

\* curr after the checkpoints from base_cp_index on were applied with
\* outcome `r`
CurrRebuilt(c, cp_count, r) ==
    [cache |-> [c EXCEPT !.curr_mmr = r.m, !.curr_cp_index = cp_count],
     err |-> r.err]

\* rebuild curr: a pruned copy of base with the checkpoints of the log from
\* base_cp_index on applied in order
RebuildCurr(c, log) ==
    CurrRebuilt(c, MemLen(log),
                ApplyAll(prune_mutable_mmr(c.base_mmr),
                         SubSeq(log.db, c.base_cp_index + 1, MemLen(log))))

\* curr is rebuilt when the base was brought up to date without an error
ThenRebuildCurr(b, log) ==
    IF b.err # "ok" THEN b ELSE RebuildCurr(b.cache, log)

\* base after the checkpoints up to `to` were applied with outcome `r`
BasePromoted(c, to, r) ==
    [cache |-> [c EXCEPT !.base_mmr = r.m, !.base_cp_index = to],
     err |-> r.err]

\* promote the checkpoints from base_cp_index up to `to` into base; the
\* base index only moves forward
PromoteIntoBase(c, log, to) ==
    IF to <= c.base_cp_index THEN [cache |-> c, err |-> "ok"]
    ELSE BasePromoted(c, to,
                      ApplyAll(c.base_mmr,
                               SubSeq(log.db, c.base_cp_index + 1, to)))

\* update(): a log shorter than base_cp_index rebuilds base from a cleared
\* one and then curr; a log shorter than curr_cp_index rebuilds curr; a
\* longer log promotes the excess into base and rebuilds curr
update(c, log) ==
    IF MemLen(log) < c.base_cp_index
    THEN ThenRebuildCurr(
             PromoteIntoBase([c EXCEPT !.base_mmr = MutClear(@),
                                       !.base_cp_index = 0],
                             log, ExcessPastMinHistory(c, MemLen(log))),
             log)
    ELSE IF MemLen(log) < c.curr_cp_index
    THEN RebuildCurr(c, log)
    ELSE IF MemLen(log) > c.curr_cp_index
    THEN ThenRebuildCurr(
             PromoteIntoBase(c, log, ExcessPastMinHistory(c, MemLen(log))),
             log)
    ELSE [cache |-> c, err |-> "ok"]

\* ------------------------------------------------------------------------
\* MerkleChangeTracker: state
\* ------------------------------------------------------------------------

VARIABLES
    base,               \* MutableMmr<Vec<H256>>
    mmr,                \* PrunedMutableMmr, the current state
    checkpoints,        \* the checkpoint log
    current_additions,  \* hashes added since the last commit
    current_deletions,  \* deletions since the last commit
    config,             \* MerkleChangeTrackerConfig and hist_commit_count
    res,                \* the last call: operation and outcome
    budget,             \* changes the run may still make
    cp_roots,           \* per checkpoint, the root read right after its commit
    phase,              \* progress through push; commit; push; rewind(1)
    since,              \* pushes and deletes since commit/reset/rewind/replay
    pending,            \* pushes and deletes since the change-set was emptied
    vmmr,               \* a MerkleMountainRange<Vec<H256>> of its own
    vres,               \* the last call on the standalone MMRs and proofs
    snap,               \* the leaves read from vmmr and what it held then
    pmmr,               \* a PrunedMmr made from vmmr
    proof,              \* the last MerkleProof built and what it was built for
    ma,                 \* a MutableMmr<Vec<H256>> of its own
    mb,                 \* a second MutableMmr<Vec<H256>>, compared with ma
    msnap,              \* the MutableMmrLeafNodes read from ma and what it covers
    db_vec,             \* a MemBackendVec
    mem_vec,            \* a Vec that gets the same calls as db_vec
    mmr_cache           \* a tracker that follows a shared checkpoint log

vars == <<base, mmr, checkpoints, current_additions, current_deletions,
          config, res, budget, cp_roots, phase, since, pending, vmmr,
          vres, snap, pmmr, proof, ma, mb, msnap, db_vec, mem_vec,
          mmr_cache>>

\* the objects that live beside the tracker
mmrVars == <<vmmr, snap, pmmr, proof>>

mutableVars == <<ma, mb, msnap>>

backendVars == <<db_vec, mem_vec, mmr_cache>>

standaloneVars == <<vres, mmrVars, mutableVars, backendVars>>

trackerVars == <<base, mmr, checkpoints, current_additions, current_deletions,
                 config, res, budget, cp_roots, phase, since, pending>>

\* the configurations trackers are created with (min <= max)
Configs ==
    {[min_history_len |-> 1, max_history_len |-> 1, hist_commit_count |-> 1]}

\* a base MMR that is one leaf short of the ceiling
FullBaseLeaves == U32_MAX - 1

\* MutableMmr over a Vec, filled by n pushes of the same hash
BaseWith(n) ==
    ApplyAdds(MutNew(VecStorage(<<>>)), [i \in 1..n |-> <<1>>]).m

\* the snapshots restore is called with
RestoreStates ==
    {[leaf_hashes |-> <<(<<2>>), (<<1>>)>>, deleted |-> [bits |-> {1}, run |-> FALSE]]}

NoGhost == [added |-> <<>>, deleted |-> {}]

\* no call was made yet
NoCall == [op |-> "none", args |-> <<>>, ret |-> None, err |-> "ok"]

\* no leaves were read yet
NoSnap == [leaf_hashes |-> <<>>, len |-> -1, root |-> None, hashes |-> <<>>]

\* no pruned MMR was made yet
NoMmr ==
    [kind |-> "none", base_offset |-> 0, peak_indices |-> <<>>,
     peak_hashes |-> <<>>, hashes |-> <<>>]

\* no proof was built yet
NoProof == [value |-> DefaultProof, pos |-> -1, root |-> None, hash |-> None]

\* no MutableMmrLeafNodes was read yet
NoLeafNodes ==
    [state |-> MutableMmrLeafNodes(<<>>, BitmapCreate), first |-> -1,
     count |-> 0, parts |-> 0, of |-> MutNew(VecStorage(<<>>))]

\* the mutable MMRs and the vectors before anything was done with them
IdleLater ==
    /\ ma = MutNew(VecStorage(<<>>))
    /\ mb = MutNew(VecStorage(<<>>))
    /\ msnap = NoLeafNodes
    /\ db_vec = MemBackendVec(<<>>)
    /\ mem_vec = <<>>
    /\ mmr_cache = MmrCacheNew(1)

\* the standalone objects before anything was done with them
Idle ==
    /\ vres = NoCall /\ snap = NoSnap /\ pmmr = NoMmr /\ proof = NoProof
    /\ IdleLater

\* MerkleChangeTracker::new over an empty checkpoint log
NewTracker(b, c, changes) ==
    /\ base = b
    /\ mmr = prune_mutable_mmr(b)
    /\ checkpoints = <<>>
    /\ current_additions = <<>>
    /\ current_deletions = BitmapCreate
    /\ config = c
    /\ res = [op |-> "new", ret |-> "ok"]
    /\ budget = changes
    /\ cp_roots = <<>>
    /\ phase = 0
    /\ since = NoGhost
    /\ pending = NoGhost

\* the sizes of the base MMR a tracker is created over
BaseLeaves == {0, FullBaseLeaves}

Init ==
    /\ \E n \in BaseLeaves, c \in Configs :
           NewTracker(BaseWith(n), c, MaxChanges)
    /\ vmmr = VecStorage(<<>>)
    /\ Idle

\* MerkleChangeTracker::checkpoint_count
checkpoint_count == Len(checkpoints)

Called(op, ret) == res' = [op |-> op, ret |-> ret]

\* ------------------------------------------------------------------------
\* MerkleChangeTracker: operations
\* ------------------------------------------------------------------------

\* MerkleChangeTracker::push
Push(hash) ==
    /\ budget > 0
    /\ budget' = budget - 1
    /\ \E result \in {MutPush(mmr, hash)} :
           IF result.err = "ok"
           THEN /\ mmr' = result.m
                /\ current_additions' = Append(current_additions, hash)
                /\ since' = [since EXCEPT !.added = Append(@, hash)]
                /\ pending' = [pending EXCEPT !.added = Append(@, hash)]
                /\ phase' = IF phase \in {2, 3} THEN 3 ELSE 1
                /\ Called("push", "ok")
           ELSE /\ UNCHANGED <<mmr, current_additions, since, pending>>
                /\ phase' = 0
                /\ Called("push", result.err)
    /\ UNCHANGED <<base, checkpoints, current_deletions, config, cp_roots, standaloneVars>>

\* MerkleChangeTracker::delete_and_compress; delete(i) is the call with
\* compress = TRUE
DeleteAndCompress(leaf_node_index, compress) ==
    /\ \E result \in {MutDeleteAndCompress(mmr, leaf_node_index, compress)} :
           /\ result.ret => budget > 0
           /\ budget' = IF result.ret THEN budget - 1 ELSE budget
           /\ mmr' = result.m
           /\ IF result.ret
              THEN /\ current_deletions' = BitmapAdd(current_deletions, leaf_node_index)
                   /\ since' = [since EXCEPT !.deleted = @ \cup {leaf_node_index}]
                   /\ pending' = [pending EXCEPT !.deleted = @ \cup {leaf_node_index}]
              ELSE UNCHANGED <<current_deletions, since, pending>>
           /\ Called("delete_and_compress", IF result.ret THEN "true" ELSE "false")
    /\ phase' = 0
    /\ UNCHANGED <<base, checkpoints, current_additions, config, cp_roots, standaloneVars>>

\* MerkleChangeTracker::compress
Compress ==
    /\ mmr' = MutCompress(mmr)
    /\ Called("compress", IF mmr'.deleted.run THEN "true" ELSE "false")
    /\ phase' = 0
    /\ UNCHANGED <<base, checkpoints, current_additions, current_deletions,
                   config, budget, cp_roots, since, pending, standaloneVars>>

\* update_base_mmr after the oldest checkpoints were applied to base with
\* outcome `r`: an error returns before the log is shifted
PromotedOrFailed(cps, c, r) ==
    IF r.err # "ok"
    THEN [base |-> r.m, checkpoints |-> cps, err |-> r.err]
    ELSE [base |-> r.m, checkpoints |-> Shift(cps, c.hist_commit_count),
          err |-> "ok"]

\* an update_base_mmr that promotes the whole log
UpdateBaseMmrWholeLog(b, cps, c) ==
    IF Len(cps) > c.max_history_len
    THEN [base |-> ApplyAll(b, cps).m, checkpoints |-> <<>>,
          err |-> ApplyAll(b, cps).err]
    ELSE [base |-> b, checkpoints |-> cps, err |-> "ok"]

\* MerkleChangeTracker::update_base_mmr on the log `cps`
update_base_mmr(b, cps, c) ==
    IF Len(cps) > c.max_history_len
    THEN PromotedOrFailed(
             cps, c,
             ApplyAll(b, SubSeq(cps, 1, Min(c.hist_commit_count, Len(cps)))))
    ELSE [base |-> b, checkpoints |-> cps, err |-> "ok"]

\* MerkleChangeTracker::commit, while the log holds no more than max_log
\* checkpoints
CommitUpTo(max_log) ==
    /\ checkpoint_count <= max_log
    /\ \E diff \in {CheckPoint(current_additions, current_deletions)} :
       \E u \in {update_base_mmr(base, Append(checkpoints, diff), config)} :
       \E root \in {MutRoot(mmr)} :
           /\ base' = u.base
           /\ checkpoints' = u.checkpoints
           /\ Called("commit", u.err)
           /\ cp_roots' = IF Len(u.checkpoints) = Len(checkpoints) + 1
                          THEN Append(cp_roots, root)
                          ELSE Shift(Append(cp_roots, root), config.hist_commit_count)
           /\ phase' = IF u.err = "ok" /\ phase \in {1, 3} THEN 2 ELSE 0
    /\ current_additions' = <<>>
    /\ current_deletions' = BitmapCreate
    /\ since' = NoGhost
    /\ pending' = NoGhost
    /\ UNCHANGED <<mmr, config, budget, standaloneVars>>

Commit == CommitUpTo(MaxLog)

\* revert_mmr_to_base followed by the body of MerkleChangeTracker::replay
ReplayBody(op, num_checkpoints, next_phase) ==
    /\ current_additions' = <<>>
    /\ current_deletions' = BitmapCreate
    /\ phase' = next_phase
    /\ since' = NoGhost
    /\ pending' = NoGhost
    /\ UNCHANGED <<base, config, budget, standaloneVars>>
    /\ cp_roots' = Truncate(cp_roots, num_checkpoints)
    /\ \E cps \in {Truncate(checkpoints, num_checkpoints)} :
           /\ checkpoints' = cps
           /\ \E result \in {ApplyAll(prune_mutable_mmr(base), cps)} :
                  /\ mmr' = MutCompress(result.m)
                  /\ Called(op, result.err)

\* MerkleChangeTracker::replay
Replay(num_checkpoints) == ReplayBody("replay", num_checkpoints, 0)

\* MerkleChangeTracker::reset
Reset == ReplayBody("reset", checkpoint_count, 0)

\* a rewind that returns to the last checkpoint whatever steps_back is
RewindToHead(steps_back) ==
    ReplayBody("rewind", checkpoint_count,
               IF phase = 3 /\ steps_back = 1 THEN 4 ELSE 0)

\* MerkleChangeTracker::rewind. checkpoint_count - steps_back is a usize
\* subtraction: when it underflows the call panics (overflow checks on) or
\* wraps to a value above the log length (overflow checks off).
Rewind(steps_back) ==
    IF steps_back <= checkpoint_count
    THEN ReplayBody("rewind", checkpoint_count - steps_back,
                    IF phase = 3 /\ steps_back = 1 THEN 4 ELSE 0)
    ELSE \/ /\ Called("rewind", "panic")
            /\ phase' = 0
            /\ UNCHANGED <<base, mmr, checkpoints, current_additions,
                           current_deletions, config, budget, cp_roots,
                           since, pending, standaloneVars>>
         \/ ReplayBody("rewind", checkpoint_count, 0)

\* a rewind_to_start that discards the history as well
RewindToStartClearsLog ==
    /\ mmr' = prune_mutable_mmr(base)
    /\ current_deletions' = BitmapCreate
    /\ current_additions' = <<>>
    /\ checkpoints' = <<>>
    /\ cp_roots' = <<>>
    /\ Called("rewind_to_start", "ok")
    /\ phase' = 0
    /\ pending' = NoGhost
    /\ UNCHANGED <<base, config, budget, since, standaloneVars>>

\* MerkleChangeTracker::rewind_to_start (revert_mmr_to_base)
RewindToStart ==
    /\ mmr' = prune_mutable_mmr(base)
    /\ current_deletions' = BitmapCreate
    /\ current_additions' = <<>>
    /\ Called("rewind_to_start", "ok")
    /\ phase' = 0
    /\ pending' = NoGhost
    /\ UNCHANGED <<base, checkpoints, config, budget, cp_roots, since, standaloneVars>>

\* MerkleChangeTracker::restore
Restore(base_state) ==
    /\ budget >= Len(base_state.leaf_hashes)
    /\ budget' = budget - Len(base_state.leaf_hashes)
    /\ checkpoints' = <<>>
    /\ cp_roots' = <<>>
    /\ mmr' = prune_mutable_mmr(base)
    /\ current_deletions' = BitmapCreate
    /\ current_additions' = <<>>
    /\ \E r \in {MutRestore(base, base_state)} :
           /\ base' = r.m
           /\ Called("restore", r.err)
    /\ phase' = 0
    /\ pending' = NoGhost
    /\ UNCHANGED <<config, since, standaloneVars>>

Next ==
    \/ \E hash \in Hashes : Push(hash)
    \/ \E i \in 0..MaxDelIdx, compress \in BOOLEAN : DeleteAndCompress(i, compress)
    \/ Compress
    \/ Commit
    \/ Reset
    \/ \E k \in 0..MaxSteps : Rewind(k)
    \/ \E n \in 0..MaxSteps : Replay(n)
    \/ RewindToStart
    \/ \E s \in RestoreStates : Restore(s)

Spec == Init /\ [][Next]_vars

\* ------------------------------------------------------------------------
\* The append-only MMR on a Vec backend, on its own
\* ------------------------------------------------------------------------

\* an idle tracker beside the standalone objects
IdleTracker == NewTracker(BaseWith(0), CHOOSE c \in Configs : TRUE, 0)

\* MerkleMountainRange::push on the standalone MMR while it has fewer than
\* max_leaves leaves
VecPushUpTo(hash, max_leaves) ==
    /\ MmrLeafCount(vmmr) < max_leaves
    /\ \E r \in {MmrPush(vmmr, hash)} :
           /\ vmmr' = r.st
           /\ vres' = [op |-> "push", args |-> <<hash>>, ret |-> r.ret,
                       err |-> r.err]
    /\ UNCHANGED <<trackerVars, mutableVars, backendVars, snap, pmmr, proof>>

VecPush(hash) == VecPushUpTo(hash, MaxMmrLeaves)

InitMmr ==
    /\ IdleTracker
    /\ vmmr = VecStorage(<<>>)
    /\ Idle

NextMmr == \E hash \in Hashes : VecPush(hash)

SpecMmr == InitMmr /\ [][NextMmr]_vars

\* ------------------------------------------------------------------------
\* Reading the standalone MMR back: get_leaf_hashes, restore, find_leaf_node
\* ------------------------------------------------------------------------

\* MerkleMountainRange::get_leaf_hashes(0, get_leaf_count()); the snapshot
\* also keeps len(), the root and the stored hashes of that moment
GetLeafHashes ==
    /\ snap' = [leaf_hashes |-> get_leaf_hashes(vmmr, 0, MmrLeafCount(vmmr)),
                len |-> StLen(vmmr), root |-> MmrRoot(vmmr),
                hashes |-> vmmr.hashes]
    /\ vres' = [op |-> "get_leaf_hashes", args |-> <<0, MmrLeafCount(vmmr)>>,
                ret |-> snap'.leaf_hashes, err |-> "ok"]
    /\ UNCHANGED <<trackerVars, mutableVars, backendVars, vmmr, pmmr, proof>>

\* MerkleMountainRange::restore with the leaves that were read
VecRestore ==
    /\ snap # NoSnap
    /\ \E r \in {MmrRestore(vmmr, snap.leaf_hashes)} :
           /\ vmmr' = r.st
           /\ vres' = [op |-> "restore", args |-> <<StLen(vmmr)>>,
                       ret |-> None, err |-> r.err]
    /\ UNCHANGED <<trackerVars, mutableVars, backendVars, snap, pmmr, proof>>

\* the hashes find_leaf_node is asked for: the leaf hashes and the hash of
\* a parent node
FindInputs == Hashes \cup {hash_with(<<1>>, <<1>>)}

\* MerkleMountainRange::find_leaf_node
FindLeafNode(hash) ==
    /\ \E r \in {find_leaf_node(vmmr, hash)} :
           vres' = [op |-> "find_leaf_node", args |-> <<hash>>,
                    ret |-> r.ret, err |-> r.err]
    /\ UNCHANGED <<trackerVars, mutableVars, backendVars, vmmr, snap, pmmr, proof>>

NextMmrOps ==
    \/ \E hash \in Hashes : VecPushUpTo(hash, MaxOpsLeaves)
    \/ GetLeafHashes
    \/ VecRestore
    \/ \E hash \in FindInputs : FindLeafNode(hash)

SpecMmrOps == InitMmr /\ [][NextMmrOps]_vars

\* ------------------------------------------------------------------------
\* Merkle proofs over the standalone MMR
\* ------------------------------------------------------------------------

\* what a proof construction leaves behind: the result in vres and, when it
\* succeeded, the proof with the position, hash and root it was built for
ProofBuilt(op, arg, pos, r) ==
    /\ vres' = [op |-> op, args |-> <<arg>>, ret |-> r.at, err |-> r.err]
    /\ proof' = IF r.err = "ok"
                THEN [value |-> r.proof, pos |-> pos, root |-> MmrRoot(vmmr),
                      hash |-> get_node_hash(vmmr, pos)]
                ELSE NoProof
    /\ UNCHANGED <<trackerVars, mutableVars, backendVars, vmmr, snap, pmmr>>

\* MerkleProof::for_node
ForNode(pos) ==
    \E r \in {for_node(vmmr, pos)} : ProofBuilt("for_node", pos, pos, r)

\* MerkleProof::for_leaf_node
ForLeafNode(leaf_pos) ==
    \E r \in {for_leaf_node(vmmr, leaf_pos)} :
        ProofBuilt("for_leaf_node", leaf_pos, leaf_index(leaf_pos), r)

\* the hashes a hash can be changed to
OtherHashes(h) == (Hashes \cup {null_hash}) \ {h}

\* the proofs that differ from `p` in one field: mmr_size, one path hash or
\* one peak hash
ChangedProofs(p) ==
    {[p EXCEPT !.mmr_size = n] : n \in (0..MaxPos) \ {p.mmr_size}}
    \cup UNION {{[p EXCEPT !.path[i] = h] : h \in OtherHashes(p.path[i])} :
                    i \in 1..Len(p.path)}
    \cup UNION {{[p EXCEPT !.peaks[i] = h] : h \in OtherHashes(p.peaks[i])} :
                    i \in 1..Len(p.peaks)}

\* the proof that was built, with the root, hash and position it is for
Genuine ==
    [proof |-> proof.value, root |-> proof.root, hash |-> proof.hash,
     pos |-> proof.pos]

\* what verify is called with: the proof as built, or with one of root,
\* hash, position or proof field changed; a default proof when none was built
VerifyInputs ==
    IF proof = NoProof
    THEN {[proof |-> DefaultProof, root |-> null_hash, hash |-> h, pos |-> 0] :
              h \in Hashes}
    ELSE {Genuine}
         \cup {[Genuine EXCEPT !.root = h] : h \in OtherHashes(proof.root)}
         \cup {[Genuine EXCEPT !.hash = h] : h \in OtherHashes(proof.hash)}
         \cup {[Genuine EXCEPT !.pos = n] : n \in 0..MaxPos}
         \cup {[Genuine EXCEPT !.proof = q] : q \in ChangedProofs(proof.value)}

\* MerkleProof::verify
Verify(in) ==
    /\ vres' = [op |-> "verify", args |-> <<in.proof, in.root, in.hash, in.pos>>,
                ret |-> None, err |-> verify(in.proof, in.root, in.hash, in.pos)]
    /\ UNCHANGED <<trackerVars, mutableVars, backendVars, vmmr, snap, pmmr, proof>>

\* MerkleProof::verify_leaf with the proof, root and hash as built
VerifyLeaf(leaf_pos) ==
    /\ proof # NoProof
    /\ vres' = [op |-> "verify_leaf",
                args |-> <<proof.value, proof.root, proof.hash, leaf_pos>>,
                ret |-> None,
                err |-> verify_leaf(proof.value, proof.root, proof.hash, leaf_pos)]
    /\ UNCHANGED <<trackerVars, mutableVars, backendVars, vmmr, snap, pmmr, proof>>

\* create_mmr: leaf n is int_to_hash(n)
CreateMmrPush ==
    \E hash \in {int_to_hash(MmrLeafCount(vmmr))} :
        VecPushUpTo(hash, MaxProofLeaves)

NextProof ==
    \/ CreateMmrPush
    \/ \E pos \in 0..MaxPos : ForNode(pos)
    \/ \E leaf_pos \in 0..MaxProofLeaves : ForLeafNode(leaf_pos)
    \/ \E in \in VerifyInputs : Verify(in)
    \/ \E leaf_pos \in 0..MaxProofLeaves : VerifyLeaf(leaf_pos)

SpecProof == InitMmr /\ [][NextProof]_vars

\* ------------------------------------------------------------------------
\* A pruned MMR beside the MMR it was pruned from
\* ------------------------------------------------------------------------

\* the leaves of the MMRs that are pruned
BaseLeafSeqs == UNION {[1..k -> Hashes] : k \in 0..MaxBaseLeaves}

\* an MMR built by pushes, and prune_mmr of it
InitPruned ==
    /\ IdleTracker
    /\ \E leaves \in BaseLeafSeqs :
           vmmr = MmrPushAll(VecStorage(<<>>), leaves).st
    /\ pmmr = prune_mmr(vmmr)
    /\ vres = NoCall
    /\ snap = NoSnap
    /\ proof = NoProof
    /\ IdleLater

\* MerkleMountainRange::push of the same hash on the pruned MMR and on the
\* unpruned one; vres holds what the pruned MMR returned
PrunedPush(hash) ==
    /\ Len(LeavesOf(pmmr.hashes)) < MaxPrunedPushes
    /\ \E r \in {MmrPush(pmmr, hash)} :
           /\ pmmr' = r.st
           /\ vres' = [op |-> "push", args |-> <<hash>>, ret |-> r.ret,
                       err |-> r.err]
    /\ vmmr' = MmrPush(vmmr, hash).st
    /\ UNCHANGED <<trackerVars, mutableVars, backendVars, snap, proof>>

\* MerkleMountainRange::get_leaf_hash on the pruned MMR
PrunedGetLeafHash(leaf_node_index) ==
    /\ vres' = [op |-> "get_leaf_hash", args |-> <<leaf_node_index>>,
                ret |-> get_leaf_hash(pmmr, leaf_node_index), err |-> "ok"]
    /\ UNCHANGED <<trackerVars, mutableVars, backendVars, vmmr, snap, pmmr, proof>>

NextPruned ==
    \/ \E hash \in Hashes : PrunedPush(hash)
    \/ \E k \in 0..(MaxBaseLeaves + MaxPrunedPushes) : PrunedGetLeafHash(k)

SpecPruned == InitPruned /\ [][NextPruned]_vars

\* ------------------------------------------------------------------------
\* A MutableMmr on a Vec backend, on its own
\* ------------------------------------------------------------------------

\* MutableMmr::push of the hash the tests push as this leaf, while the MMR
\* has fewer than max_leaves leaves
MutablePush(max_leaves) ==
    /\ MutGetLeafCount(ma) < max_leaves
    /\ \E r \in {MutPush(ma, int_to_hash(MutGetLeafCount(ma)))} :
           /\ ma' = r.m
           /\ vres' = [op |-> "push", args |-> <<>>, ret |-> r.ret,
                       err |-> r.err]
    /\ UNCHANGED <<trackerVars, mmrVars, backendVars, mb, msnap>>

\* MutableMmr::delete_and_compress; delete(k) is the call with compress = TRUE
MutableDelete(leaf_node_index, compress) ==
    /\ \E r \in {MutDeleteAndCompress(ma, leaf_node_index, compress)} :
           /\ ma' = r.m
           /\ vres' = [op |-> "delete_and_compress",
                       args |-> <<leaf_node_index, compress>>,
                       ret |-> r.ret, err |-> "ok"]
    /\ UNCHANGED <<trackerVars, mmrVars, backendVars, mb, msnap>>

\* MutableMmr::compress
MutableCompress ==
    /\ ma' = MutCompress(ma)
    /\ vres' = [op |-> "compress", args |-> <<>>, ret |-> ma'.deleted.run,
                err |-> "ok"]
    /\ UNCHANGED <<trackerVars, mmrVars, backendVars, mb, msnap>>

\* MutableMmr::clear
MutableClear ==
    /\ ma' = MutClear(ma)
    /\ vres' = [op |-> "clear", args |-> <<>>, ret |-> None, err |-> "ok"]
    /\ UNCHANGED <<trackerVars, mmrVars, backendVars, mb, msnap>>

\* MutableMmr::to_leaf_nodes(first, count); msnap keeps the value with the
\* range asked for and the MMR it was read from. A panic returns nothing
ToLeafNodes(first, count) ==
    /\ \E overflow_checks \in BOOLEAN :
           \E r \in {to_leaf_nodes(ma, first, count, overflow_checks)} :
               /\ msnap' = IF r.err = "ok"
                           THEN [state |-> r.state, first |-> first,
                                 count |-> count, parts |-> 1, of |-> ma]
                           ELSE msnap
               /\ vres' = [op |-> "to_leaf_nodes", args |-> <<first, count>>,
                           ret |-> None, err |-> r.err]
    /\ UNCHANGED <<trackerVars, mmrVars, backendVars, ma, mb>>

\* MutableMmrLeafNodes::combine of what was read with to_leaf_nodes of the
\* `count` leaves that follow it
CombineNext(count) ==
    /\ msnap.parts >= 1
    /\ msnap.count >= 1
    /\ msnap.of = ma
    /\ msnap.first + msnap.count + count <= MutGetLeafCount(ma)
    /\ \E r \in {to_leaf_nodes(ma, msnap.first + msnap.count, count, TRUE)} :
           msnap' = [msnap EXCEPT !.state = combine(@, r.state),
                                  !.count = @ + count, !.parts = @ + 1]
    /\ vres' = [op |-> "combine", args |-> <<msnap.first + msnap.count, count>>,
                ret |-> None, err |-> "ok"]
    /\ UNCHANGED <<trackerVars, mmrVars, backendVars, ma, mb>>

\* MutableMmr::restore with what was read; the call record keeps the leaf
\* count and the deleted set the MMR had before
MutableRestore ==
    /\ msnap.parts >= 1
    /\ \E r \in {MutRestore(ma, msnap.state)} :
           /\ ma' = r.m
           /\ vres' = [op |-> "restore",
                       args |-> <<MutGetLeafCount(ma), ma.deleted.bits>>,
                       ret |-> None, err |-> r.err]
    /\ UNCHANGED <<trackerVars, mmrVars, backendVars, mb, msnap>>

NextMut ==
    \/ MutablePush(MaxMutLeaves)
    \/ \E k \in 0..MaxMutLeaves, compress \in BOOLEAN : MutableDelete(k, compress)
    \/ MutableCompress
    \/ MutableClear
    \/ \E first \in 0..MaxMutLeaves, count \in 0..MaxMutLeaves :
           ToLeafNodes(first, count)
    \/ MutableRestore

SpecMut == InitMmr /\ [][NextMut]_vars

\* ------------------------------------------------------------------------
\* Saving a MutableMmr with to_leaf_nodes(0, get_leaf_count()) and restoring it
\* ------------------------------------------------------------------------

NextRestore ==
    \/ MutablePush(MaxSnapLeaves)
    \/ \E k \in 0..MaxSnapLeaves, compress \in BOOLEAN : MutableDelete(k, compress)
    \/ ToLeafNodes(0, MutGetLeafCount(ma))
    \/ MutableRestore

SpecRestore == InitMmr /\ [][NextRestore]_vars

\* ------------------------------------------------------------------------
\* Reading a MutableMmr in parts and combining the parts
\* ------------------------------------------------------------------------

\* create_mutable_mmr(n) followed by delete_and_compress(k, false) for the
\* indices of `deletions` in rising order and, if asked for, by compress
BuiltMutable(n, deletions, compress) ==
    LET pushed == MutPushAll(MutNew(VecStorage(<<>>)),
                             [i \in 1..n |-> int_to_hash(i - 1)]).m
        marked == MutMarkAll(pushed, SortedSeq(deletions))
    IN  IF compress THEN MutCompress(marked) ELSE marked

\* the MMRs that are read in parts
InitCombine ==
    /\ IdleTracker
    /\ vmmr = VecStorage(<<>>)
    /\ vres = NoCall /\ snap = NoSnap /\ pmmr = NoMmr /\ proof = NoProof
    /\ \E n \in 0..MaxSnapLeaves, compress \in BOOLEAN :
           \E deletions \in SUBSET (0..(n - 1)) :
               ma = BuiltMutable(n, deletions, compress)
    /\ mb = MutNew(VecStorage(<<>>))
    /\ msnap = NoLeafNodes
    /\ db_vec = MemBackendVec(<<>>)
    /\ mem_vec = <<>>
    /\ mmr_cache = MmrCacheNew(1)

NextCombine ==
    \/ \E first \in 0..MaxSnapLeaves, count \in 0..MaxSnapLeaves :
           ToLeafNodes(first, count)
    \/ \E count \in 1..MaxSnapLeaves : CombineNext(count)

SpecCombine == InitCombine /\ [][NextCombine]_vars

\* ------------------------------------------------------------------------
\* calculate_pruned_mmr_root and calculate_mmr_root of a source MMR
\* ------------------------------------------------------------------------

\* the sequences over S of at most n elements
SeqsUpTo(S, n) == UNION {[1..k -> S] : k \in 0..n}

\* the additions the roots are calculated for
CalcAdditions == SeqsUpTo(Hashes, MaxCalcChanges)

\* the deletions the roots are calculated for: indices of the source and of
\* the first addition to the largest source
CalcDeletions == SeqsUpTo(0..MaxSrcLeaves, MaxCalcChanges)

\* the calls that calculate a root
CalcOps == {"calculate_pruned_mmr_root", "calculate_mmr_root"}

\* calculate_pruned_mmr_root(&ma, additions, deletions), called once the
\* source was built or changed
CalculatePrunedMmrRoot(additions, deletions) ==
    /\ vres.op \notin CalcOps
    /\ \E r \in {calculate_pruned_mmr_root(ma, additions, deletions)} :
           vres' = [op |-> "calculate_pruned_mmr_root",
                    args |-> <<additions, deletions>>,
                    ret |-> r.ret, err |-> r.err]
    /\ UNCHANGED <<trackerVars, mmrVars, mutableVars, backendVars>>

\* calculate_mmr_root(ma.mmr(), additions), called once the source was built
\* or changed
CalculateMmrRoot(additions) ==
    /\ vres.op \notin CalcOps
    /\ \E r \in {calculate_mmr_root(ma.mmr, additions)} :
           vres' = [op |-> "calculate_mmr_root", args |-> <<additions>>,
                    ret |-> r.ret, err |-> r.err]
    /\ UNCHANGED <<trackerVars, mmrVars, mutableVars, backendVars>>

NextCalc ==
    \/ MutablePush(MaxSrcLeaves)
    \/ \E k \in 0..MaxSrcLeaves, compress \in BOOLEAN : MutableDelete(k, compress)
    \/ \E additions \in CalcAdditions, deletions \in CalcDeletions :
           CalculatePrunedMmrRoot(additions, deletions)
    \/ \E additions \in CalcAdditions : CalculateMmrRoot(additions)

SpecCalc == InitMmr /\ [][NextCalc]_vars

\* ------------------------------------------------------------------------
\* Two MutableMmr values side by side
\* ------------------------------------------------------------------------

\* MutableMmr::push on the second MMR
SecondPush(hash) ==
    /\ MutGetLeafCount(mb) < MaxPairLeaves
    /\ \E r \in {MutPush(mb, hash)} :
           /\ mb' = r.m
           /\ vres' = [op |-> "push", args |-> <<hash>>, ret |-> r.ret,
                       err |-> r.err]
    /\ UNCHANGED <<trackerVars, mmrVars, backendVars, ma, msnap>>

\* MutableMmr::delete_and_compress on the second MMR
SecondDelete(leaf_node_index, compress) ==
    /\ \E r \in {MutDeleteAndCompress(mb, leaf_node_index, compress)} :
           /\ mb' = r.m
           /\ vres' = [op |-> "delete_and_compress", args |-> <<>>,
                       ret |-> r.ret, err |-> "ok"]
    /\ UNCHANGED <<trackerVars, mmrVars, backendVars, ma, msnap>>

\* the checkpoints a tracker commits over `m`: at most one added hash and
\* deletions of leaves that are live once the hash is added, recorded with
\* Bitmap::add
CheckPointsOver(m) ==
    {CheckPoint(nodes_added, [bits |-> deleted, run |-> FALSE]) :
        nodes_added \in {<<>>, <<int_to_hash(m.size)>>},
        deleted \in SUBSET ((0..(MaxPairLeaves - 1)) \ m.deleted.bits)}

\* MerkleCheckPoint::apply on the second MMR
SecondApply(cp) ==
    /\ mb.size + Len(cp.nodes_added) <= MaxPairLeaves
    /\ \A k \in cp.nodes_deleted.bits : k < mb.size + Len(cp.nodes_added)
    /\ \E r \in {Apply(cp, mb)} :
           /\ mb' = r.m
           /\ vres' = [op |-> "apply", args |-> <<>>, ret |-> None,
                       err |-> r.err]
    /\ UNCHANGED <<trackerVars, mmrVars, backendVars, ma, msnap>>

\* the hashes pushed onto the second MMR: the hash the first MMR holds at
\* that index or, for the first leaf, another one
SecondHashes ==
    {int_to_hash(mb.size)}
    \cup (IF mb.size = 0 THEN {int_to_hash(MaxPairLeaves)} ELSE {})

\* get_merkle_root of both MMRs
GetMerkleRoots ==
    /\ vres' = [op |-> "get_merkle_root", args |-> <<>>,
                ret |-> <<MutRoot(ma), MutRoot(mb)>>, err |-> "ok"]
    /\ UNCHANGED <<trackerVars, mmrVars, mutableVars, backendVars>>

\* ma == mb
Compare ==
    /\ vres' = [op |-> "eq", args |-> <<>>, ret |-> MutEq(ma, mb),
                err |-> "ok"]
    /\ UNCHANGED <<trackerVars, mmrVars, mutableVars, backendVars>>

NextPair ==
    \/ MutablePush(MaxPairLeaves)
    \/ \E k \in 0..MaxPairLeaves, compress \in BOOLEAN : MutableDelete(k, compress)
    \/ \E hash \in SecondHashes : SecondPush(hash)
    \/ \E k \in 0..MaxPairLeaves, compress \in BOOLEAN : SecondDelete(k, compress)
    \/ \E cp \in CheckPointsOver(mb) : SecondApply(cp)
    \/ GetMerkleRoots
    \/ Compare

SpecPair == InitMmr /\ [][NextPair]_vars

\* ------------------------------------------------------------------------
\* A MemBackendVec and a Vec that get the same calls from one owner
\* ------------------------------------------------------------------------

\* the values that are stored
Items == {100, 200}

\* what a call on both backends leaves behind: the MemBackendVec's answer
\* first, the Vec's second
BackendCalled(op, args, mem_ret, vec_ret) ==
    /\ vres' = [op |-> op, args |-> args, ret |-> <<mem_ret, vec_ret>>,
                err |-> "ok"]
    /\ UNCHANGED <<trackerVars, mmrVars, mutableVars, mmr_cache>>

\* Storage::len
BackendLen ==
    /\ BackendCalled("len", <<>>, MemLen(db_vec), VecLen(mem_vec))
    /\ UNCHANGED backendVars

\* Storage::push
BackendPush(item) ==
    /\ VecLen(mem_vec) < MaxVecLen
    /\ \E m \in {MemPush(db_vec, item)}, v \in {VecPushItem(mem_vec, item)} :
           /\ db_vec' = m.d
           /\ mem_vec' = v.v
           /\ BackendCalled("push", <<item>>, m.ret, v.ret)

\* Storage::get
BackendGet(index) ==
    /\ BackendCalled("get", <<index>>, MemGet(db_vec, index),
                     VecGet(mem_vec, index))
    /\ UNCHANGED backendVars

\* StorageExt::truncate
BackendTruncate(len) ==
    /\ db_vec' = MemTruncate(db_vec, len)
    /\ mem_vec' = Truncate(mem_vec, len)
    /\ BackendCalled("truncate", <<len, VecLen(mem_vec)>>, "ok", "ok")

\* StorageExt::shift; the call record keeps the length before the call
BackendShift(n) ==
    /\ db_vec' = MemShift(db_vec, n)
    /\ mem_vec' = Shift(mem_vec, n)
    /\ BackendCalled("shift", <<n, VecLen(mem_vec)>>, "ok", "ok")

\* StorageExt::for_each with a closure that collects what it is called with
BackendForEach ==
    /\ BackendCalled("for_each", <<>>, MemForEach(db_vec), VecForEach(mem_vec))
    /\ UNCHANGED backendVars

\* Storage::clear
BackendClear ==
    /\ db_vec' = MemClear(db_vec)
    /\ mem_vec' = VecClear(mem_vec)
    /\ BackendCalled("clear", <<>>, "ok", "ok")

NextBackend ==
    \/ BackendLen
    \/ \E item \in Items : BackendPush(item)
    \/ \E index \in 0..MaxVecLen : BackendGet(index)
    \/ \E len \in 0..(MaxVecLen + 1) : BackendTruncate(len)
    \/ \E n \in 0..(MaxVecLen + 1) : BackendShift(n)
    \/ BackendForEach
    \/ BackendClear

SpecBackend == InitMmr /\ [][NextBackend]_vars

\* ------------------------------------------------------------------------
\* A tracker that follows a checkpoint log which its owner grows and
\* truncates between updates
\* ------------------------------------------------------------------------

\* the checkpoints that are pushed on the log
CacheCheckPoints ==
    {CheckPoint(<<h>>, BitmapCreate) : h \in Hashes}
        \cup {CheckPoint(<<(<<1>>), (<<2>>)>>, BitmapAdd(BitmapCreate, 0))}

\* the trackers are created with these history lengths
CacheMinHistory == {1, 2}

InitCache ==
    /\ IdleTracker
    /\ vmmr = VecStorage(<<>>)
    /\ vres = NoCall /\ snap = NoSnap /\ pmmr = NoMmr /\ proof = NoProof
    /\ ma = MutNew(VecStorage(<<>>))
    /\ mb = MutNew(VecStorage(<<>>))
    /\ msnap = NoLeafNodes
    /\ db_vec = MemBackendVec(<<>>)
    /\ mem_vec = <<>>
    /\ \E min_history \in CacheMinHistory :
           mmr_cache = MmrCacheNew(min_history)

\* what was done to the log since the last update, after one more change
LogChanged(before, change) ==
    IF before \in {"none", change} THEN change ELSE "both"

\* the owner of the log pushes a checkpoint
LogPush(cp) ==
    /\ MemLen(db_vec) < MaxCacheLog
    /\ \E m \in {MemPush(db_vec, cp)} :
           /\ db_vec' = m.d
           /\ vres' = [op |-> "log_push", args |-> <<>>, ret |-> m.ret,
                       err |-> "ok"]
    /\ mmr_cache' = [mmr_cache EXCEPT
                         !.changed = LogChanged(@, "grown")]
    /\ UNCHANGED <<trackerVars, mmrVars, mutableVars, mem_vec>>

\* the owner of the log truncates it to a shorter length
LogTruncate(len) ==
    /\ len < MemLen(db_vec)
    /\ db_vec' = MemTruncate(db_vec, len)
    /\ vres' = [op |-> "log_truncate", args |-> <<>>, ret |-> len,
                err |-> "ok"]
    /\ mmr_cache' = [mmr_cache EXCEPT
                         !.changed = LogChanged(@, "truncated")]
    /\ UNCHANGED <<trackerVars, mmrVars, mutableVars, mem_vec>>

\* update() followed by get_mmr_only_root(); the call record keeps what was
\* done to the log since the update before and the indices before the call
CacheUpdate ==
    /\ \E r \in {update(mmr_cache, db_vec)} :
           /\ mmr_cache' = [r.cache EXCEPT
                                !.changed = "none",
                                !.followed = @ /\ mmr_cache.changed # "both"]
           /\ vres' = [op |-> "update",
                       args |-> <<mmr_cache.changed, mmr_cache.base_cp_index,
                                  mmr_cache.curr_cp_index>>,
                       ret |-> MutMmrOnlyRoot(r.cache.curr_mmr),
                       err |-> r.err]
    /\ UNCHANGED <<trackerVars, mmrVars, mutableVars, db_vec, mem_vec>>

NextCache ==
    \/ \E cp \in CacheCheckPoints : LogPush(cp)
    \/ \E len \in 0..MaxCacheLog : LogTruncate(len)
    \/ CacheUpdate

SpecCache == InitCache /\ [][NextCache]_vars

\* ------------------------------------------------------------------------
\* MMRs that are created over a storage which already holds hashes
\* ------------------------------------------------------------------------

\* a Vec of n hashes handed to MerkleMountainRange::new or MutableMmr::new
Stored(n) == VecStorage([i \in 1..n |-> int_to_hash(i - 1)])

\* a MerkleMountainRange over a stored Vec
InitStored ==
    /\ IdleTracker
    /\ \E n \in 0..MaxStoredLen : vmmr = Stored(n)
    /\ Idle

NextStored == \E hash \in Hashes : VecPushUpTo(hash, MaxMmrLeaves)

SpecStored == InitStored /\ [][NextStored]_vars

\* a MutableMmr over a stored Vec, and a tracker whose base is another one
InitStoredMutable ==
    /\ \E n \in 0..MaxStoredLen :
           /\ NewTracker(MutNew(Stored(n)), CHOOSE c \in Configs : TRUE,
                         MaxStoredPushes)
           /\ ma = MutNew(Stored(n))
    /\ vmmr = VecStorage(<<>>)
    /\ vres = NoCall /\ snap = NoSnap /\ pmmr = NoMmr /\ proof = NoProof
    /\ mb = MutNew(VecStorage(<<>>))
    /\ msnap = NoLeafNodes
    /\ db_vec = MemBackendVec(<<>>)
    /\ mem_vec = <<>>
    /\ mmr_cache = MmrCacheNew(1)

NextStoredMutable ==
    \/ MutablePush(MaxStoredPushes)
    \/ \E hash \in Hashes : Push(hash)

SpecStoredMutable == InitStoredMutable /\ [][NextStoredMutable]_vars

\* ------------------------------------------------------------------------
\* Reading ranges of leaves from the standalone MMR
\* ------------------------------------------------------------------------

\* MerkleMountainRange::get_leaf_hashes(first, count)
VecGetLeafHashes(first, count) ==
    /\ vres' = [op |-> "get_leaf_hashes", args |-> <<first, count>>,
                ret |-> get_leaf_hashes(vmmr, first, count), err |-> "ok"]
    /\ UNCHANGED <<trackerVars, mutableVars, backendVars, vmmr, snap, pmmr, proof>>

NextRange ==
    \/ \E hash \in Hashes : VecPushUpTo(hash, MaxRangeLeaves)
    \/ \E first \in 0..MaxRange, count \in 0..MaxRange :
           VecGetLeafHashes(first, count)

SpecRange == InitMmr /\ [][NextRange]_vars

\* ------------------------------------------------------------------------
\* The merkle root of a pruned MMR that is pushed to
\* ------------------------------------------------------------------------

\* MerkleMountainRange::get_merkle_root on the pruned MMR; a get_or_panic
\* of an index the pruned hash set does not hold panics
PrunedGetMerkleRoot ==
    /\ vres' = [op |-> "get_merkle_root", args |-> <<>>,
                ret |-> MmrRoot(pmmr),
                err |-> IF MmrRoot(pmmr) = None THEN "panic" ELSE "ok"]
    /\ UNCHANGED <<trackerVars, mutableVars, backendVars, vmmr, snap, pmmr, proof>>

NextPrunedRoot ==
    \/ \E hash \in Hashes : PrunedPush(hash)
    \/ PrunedGetMerkleRoot

SpecPrunedRoot == InitPruned /\ [][NextPrunedRoot]_vars

\* ------------------------------------------------------------------------
\* A proof verified for other hashes and positions than it was built for
\* ------------------------------------------------------------------------

\* the hashes verify is asked about: every hash the MMR stores, the leaf
\* hashes and the null hash
ForgedHashes ==
    {vmmr.hashes[i] : i \in 1..Len(vmmr.hashes)} \cup Hashes \cup {null_hash}

\* verify is called with the proof and the root as built, and any hash
\* and node position
ForgeInputs ==
    {[Genuine EXCEPT !.hash = h, !.pos = n] :
         h \in ForgedHashes, n \in 0..MaxPos}

NextForge ==
    \/ \E hash \in Hashes : VecPushUpTo(hash, MaxForgeLeaves)
    \/ \E pos \in 0..MaxPos : ForNode(pos)
    \/ proof # NoProof /\ \E in \in ForgeInputs : Verify(in)

SpecForge == InitMmr /\ [][NextForge]_vars

\* ------------------------------------------------------------------------
\* The length of the log of a tracker that is pushed to, deleted from and
\* committed
\* ------------------------------------------------------------------------

\* the configurations MerkleChangeTracker::new accepts, with the
\* hist_commit_count it computes for them
HistoryConfigs ==
    UNION {{[min_history_len |-> lo, max_history_len |-> hi,
             hist_commit_count |-> hi - lo + 1] : hi \in lo..MaxHistory} :
               lo \in 1..MaxHistory}

InitHistory ==
    /\ \E n \in BaseLeaves, c \in HistoryConfigs :
           NewTracker(BaseWith(n), c, MaxChanges)
    /\ vmmr = VecStorage(<<>>)
    /\ Idle

NextHistory ==
    \/ \E hash \in Hashes : Push(hash)
    \/ \E i \in 0..MaxDelIdx, compress \in BOOLEAN : DeleteAndCompress(i, compress)
    \/ CommitUpTo(MaxHistory)

SpecHistory == InitHistory /\ [][NextHistory]_vars

\* ------------------------------------------------------------------------
\* A MutableMmr that is pushed to and deleted from
\* ------------------------------------------------------------------------

NextDelete ==
    \/ MutablePush(MaxDeleteLeaves)
    \/ \E k \in 0..MaxDeleteLeaves, compress \in BOOLEAN :
           MutableDelete(k, compress)
    \/ MutableCompress

SpecDelete == InitMmr /\ [][NextDelete]_vars

\* ------------------------------------------------------------------------
\* What the tracker is expected to hold, computed without the tracker's code
\* ------------------------------------------------------------------------

RECURSIVE AddsOf(_)
\* the hashes a log adds, in log order
AddsOf(cps) ==
    IF cps = <<>> THEN <<>> ELSE Head(cps).nodes_added \o AddsOf(Tail(cps))

\* the leaf indices a log deletes
DelsOf(cps) == UNION {cps[i].nodes_deleted.bits : i \in 1..Len(cps)}

\* what is compared of a mutable MMR: leaf count, root of the leaves, deleted set
StateOf(m) ==
    [size |-> m.size, root |-> MutMmrOnlyRoot(m), deleted |-> m.deleted.bits]

\* the MMR `b` with every checkpoint of `cps` applied in order
Replayed(b, cps) ==
    [size |-> b.size + Len(AddsOf(cps)),
     root |-> MmrRoot(MmrPushAll(b.mmr, AddsOf(cps)).st),
     deleted |-> b.deleted.bits \cup DelsOf(cps)]

\* the pending change-set as a checkpoint
PendingCp == CheckPoint(current_additions, current_deletions)

\* the change-set is empty after the step
PendingCleared == current_additions' = <<>> /\ current_deletions'.bits = {}

\* ------------------------------------------------------------------------
\* Properties
\* ------------------------------------------------------------------------

\* C1: after any sequence of tracker operations the current MMR (leaves and
\* deleted set) equals the pruned base with every checkpoint of the log
\* applied in order and then the pending additions and deletions.
C1_CurrentIsBaseLogPending ==
    StateOf(mmr) = Replayed(base, Append(checkpoints, PendingCp))

\* C2: checkpoint_count() never exceeds max_history_len.
C2_HistoryBound == checkpoint_count <= config.max_history_len

\* C3: a commit that makes the log longer than max_history_len applies the
\* oldest max_history_len - min_history_len + 1 checkpoints to base in log
\* order and removes them from the front of the log, the others keeping
\* their order; any other commit leaves base and the existing entries alone.
C3_Promotion ==
    [][res'.op = "commit" =>
        LET cps == Append(checkpoints, PendingCp)
            n == config.max_history_len - config.min_history_len + 1
        IN  IF Len(cps) > config.max_history_len
            THEN /\ StateOf(base') = Replayed(base, SubSeq(cps, 1, n))
                 /\ checkpoints' = SubSeq(cps, n + 1, Len(cps))
            ELSE /\ base' = base
                 /\ checkpoints' = cps]_vars

\* C4 as stated: after push; commit; root1 = root; push; rewind(1) the
\* current root equals root1.
C4_RoundTrip ==
    [][(phase = 3 /\ phase' = 4 /\ res'.ret = "ok") =>
        MutRoot(mmr') = cp_roots[Len(cp_roots)]]_vars

\* C4 amended: after push; commit; root1 = root; push; rewind(1) the log has
\* lost the checkpoint that commit wrote, the change-set is empty and the
\* current MMR is the pruned base with the remaining checkpoints applied.
C4_RewindDropsCommit ==
    [][(phase = 3 /\ phase' = 4) =>
        /\ checkpoints' = SubSeq(checkpoints, 1, Len(checkpoints) - 1)
        /\ PendingCleared
        /\ res'.ret = "ok" => StateOf(mmr') = Replayed(base, checkpoints')]_vars

\* push; commit; push; rewind(1) has run and returned Ok
C4_Witness == phase = 4 /\ res.ret = "ok"

C6_Reset ==
    [][res'.op = "reset" =>
        /\ PendingCleared
        /\ checkpoints' = checkpoints
        /\ res'.ret = "ok" =>
               MutRoot(mmr') = IF checkpoints = <<>> THEN MutRoot(base)
                               ELSE cp_roots[Len(cp_roots)]]_vars

FirstFailing(b, cps) ==
    LET over == {i \in 1..Len(cps) :
                    b.size + Len(AddsOf(SubSeq(cps, 1, i))) > U32_MAX}
    IN  IF over = {} THEN 0 ELSE CHOOSE i \in over : \A j \in over : i <= j

\* C8: when applying a checkpoint fails during replay(n), replay returns
\* that first error, the current MMR holds what was applied up to the
\* failure and nothing of a later checkpoint, and the log stays cut to its
\* first n entries.
C8_ReplayStopsAtError ==
    [][\A n \in 0..MaxSteps :
        (res'.op = "replay" /\ res'.ret # "ok" /\ Replay(n)) =>
            LET cps == SubSeq(checkpoints, 1, Min(n, Len(checkpoints)))
                j == FirstFailing(base, cps)
                fit == SubSeq(AddsOf(cps), 1, U32_MAX - base.size)
            IN  /\ j > 0
                /\ res'.ret = "MaximumSizeReached"
                /\ checkpoints' = cps
                /\ mmr'.size = U32_MAX
                /\ MutMmrOnlyRoot(mmr') = MmrRoot(MmrPushAll(base.mmr, fit).st)
                /\ mmr'.deleted.bits =
                       base.deleted.bits \cup DelsOf(SubSeq(cps, 1, j - 1))]_vars

\* a replay failed at a checkpoint that is followed by one with a deletion,
\* and that deletion is not in the current MMR
C8_Witness ==
    /\ res = [op |-> "replay", ret |-> "MaximumSizeReached"]
    /\ LET j == FirstFailing(base, checkpoints)
       IN  /\ j > 0
           /\ j < Len(checkpoints)
           /\ \E x \in DelsOf(SubSeq(checkpoints, j + 1, Len(checkpoints))) :
                  x \notin mmr.deleted.bits

\* what a commit of the change-set (added, deleted) does: one checkpoint
\* with these contents is appended (checkpoints may leave the front of the
\* log), the change-set is empty and the current root is as before
CommitWrites(added, deleted) ==
    /\ checkpoints' # <<>>
    /\ LET cp == checkpoints'[Len(checkpoints')]
       IN  /\ cp.nodes_added = added
           /\ cp.nodes_deleted.bits = deleted
           /\ \E d \in 0..Len(checkpoints) :
                  checkpoints' = SubSeq(Append(checkpoints, cp), d + 1,
                                        Len(checkpoints) + 1)
    /\ PendingCleared
    /\ MutRoot(mmr') = MutRoot(mmr)

\* C9 as stated: commit() appends exactly one checkpoint holding the hashes
\* pushed and the indices deleted since the last commit/reset/rewind/replay,
\* empties the change-set and keeps the current root.
C9_CommitSinceLastCommit ==
    [][res'.op = "commit" => CommitWrites(since.added, since.deleted)]_vars

\* C9 amended: commit() appends exactly one checkpoint holding the hashes
\* pushed and the indices deleted since the last commit, reset, rewind,
\* replay, rewind_to_start or restore, empties the change-set and keeps the
\* current root, also when it promotes checkpoints into base.
C9_CommitPending ==
    [][res'.op = "commit" => CommitWrites(pending.added, pending.deleted)]_vars

\* a commit wrote a checkpoint with an addition and a deletion, and leaves
\* have been promoted into base
C9_Witness ==
    /\ res = [op |-> "commit", ret |-> "ok"]
    /\ checkpoints # <<>>
    /\ checkpoints[Len(checkpoints)].nodes_added # <<>>
    /\ checkpoints[Len(checkpoints)].nodes_deleted.bits # {}
    /\ base.size \notin BaseLeaves \cup {Len(x.leaf_hashes) : x \in RestoreStates}

\* C10: on a Vec backend, after every push validate() succeeds: every
\* non-leaf position p at height h holds hash_with(hash at p - 2^h, hash at
\* p - 1).
C10_AppendStability ==
    /\ validate(vmmr) = "ok"
    /\ \A p \in 0..(Len(vmmr.hashes) - 1) :
           LET h == bintree_height(p)
           IN  h > 0 => vmmr.hashes[p + 1] =
                            hash_with(vmmr.hashes[p - Pow2(h) + 1], vmmr.hashes[p])

\* pushes have built a mountain of height 2 from leaves that differ
C10_Witness ==
    /\ Len(vmmr.hashes) >= 7
    /\ vmmr.hashes[1] # vmmr.hashes[2]

\* ------------------------------------------------------------------------
\* Properties of the append-only MMR
\* ------------------------------------------------------------------------

\* C11: MerkleMountainRange::push returns the final size of the MMR, the
\* node count len() reports right after the push, also for the first push
\* into an empty MMR.
C11_PushReturnsSize ==
    vres.op = "push" => vres.err = "ok" /\ vres.ret = StLen(vmmr)

\* node count after k pushes, k = 1..6
NodeCounts == <<1, 3, 4, 7, 8, 10>>

C13_RestoreRoundTrip ==
    vres.op = "restore" =>
        /\ vres.err = "ok"
        /\ snap.leaf_hashes = LeavesOf(snap.hashes)
        /\ StLen(vmmr) = snap.len
        /\ get_leaf_hashes(vmmr, 0, MmrLeafCount(vmmr)) = snap.leaf_hashes
        /\ \A i \in 0..Len(snap.leaf_hashes) :
               get_leaf_hash(vmmr, i) =
                   IF i < Len(snap.leaf_hashes) THEN snap.leaf_hashes[i + 1] ELSE None
        /\ MmrRoot(vmmr) = snap.root
        /\ vmmr.hashes = snap.hashes

\* four leaves were read, more were pushed, and restore was called
C13_Witness ==
    /\ vres.op = "restore"
    /\ snap.len = 7
    /\ vres.args[1] > snap.len

\* C14: find_leaf_node(h) returns Some(k) with k the leaf index of a leaf
\* whose hash is h, and None when no leaf has hash h.
C14_FindLeafNode ==
    vres.op = "find_leaf_node" =>
        LET h == vres.args[1]
            ks == {k \in 0..(MmrLeafCount(vmmr) - 1) : get_leaf_hash(vmmr, k) = h}
        IN  /\ vres.err = "ok"
            /\ IF ks = {} THEN vres.ret = None
               ELSE \E k \in ks : vres.ret = Some(k)

\* ------------------------------------------------------------------------
\* Properties of Merkle proofs
\* ------------------------------------------------------------------------

\* the call was a verify of the proof as built, for what it was built for
VerifiedGenuine ==
    /\ vres.op = "verify"
    /\ proof # NoProof
    /\ vres.args = <<proof.value, proof.root, proof.hash, proof.pos>>

\* C15: for an MMR built by pushes on a Vec and every leaf index k below
\* the leaf count, for_leaf_node(M, k) succeeds and its verify_leaf(root,
\* hash of leaf k, k) returns Ok; likewise for_node(M, p) succeeds and its
\* verify(root, hash, p) returns Ok for every leaf position p of M.
C15_ProofSoundness ==
    /\ (vres.op = "for_leaf_node" /\ vres.args[1] < MmrLeafCount(vmmr)) =>
           /\ vres.err = "ok"
           /\ proof.hash = LeavesOf(vmmr.hashes)[vres.args[1] + 1]
           /\ proof.root = MmrRoot(vmmr)
    /\ (vres.op = "for_node" /\ vres.args[1] < StLen(vmmr)
           /\ IsLeafHash(vmmr.hashes[vres.args[1] + 1])) =>
           /\ vres.err = "ok"
           /\ proof.hash = vmmr.hashes[vres.args[1] + 1]
           /\ proof.root = MmrRoot(vmmr)
    /\ VerifiedGenuine => vres.err = "ok"
    /\ (vres.op = "verify_leaf" /\ leaf_index(vres.args[4]) = proof.pos) =>
           vres.err = "ok"

\* verify_leaf accepted a proof with two siblings on its path and another
\* peak beside the local one
C15_Witness ==
    /\ vres.op = "verify_leaf"
    /\ vres.err = "ok"
    /\ Len(proof.value.path) = 2
    /\ Len(proof.value.peaks) = 1

\* C16: for_node(M, p) returns NonLeafNode for every non-leaf position p,
\* inside the MMR or not, and HashNotFound(p) for a leaf position p whose
\* hash is absent; on a zero-sized MMR for_node at position 0 returns
\* HashNotFound(0).
C16_ForNodeErrors ==
    vres.op = "for_node" =>
        LET p == vres.args[1]
        IN  /\ ~is_leaf(p) => vres.err = "NonLeafNode"
            /\ (p < StLen(vmmr) /\ ~IsLeafHash(vmmr.hashes[p + 1])) =>
                   vres.err = "NonLeafNode"
            /\ (is_leaf(p) /\ p >= StLen(vmmr)) =>
                   vres.err = "HashNotFound" /\ vres.ret = p
            /\ (StLen(vmmr) = 0 /\ p = 0) =>
                   vres.err = "HashNotFound" /\ vres.ret = 0

\* for_node was called with a non-leaf position outside a non-empty MMR
C16_Witness ==
    /\ vres.op = "for_node"
    /\ StLen(vmmr) > 0
    /\ vres.args[1] >= StLen(vmmr)
    /\ ~is_leaf(vres.args[1])

\* the call was a verify with exactly one of root, hash or a proof field
\* (mmr_size, one path hash, one peak hash) changed
VerifiedChanged ==
    /\ vres.op = "verify"
    /\ proof # NoProof
    /\ vres.args[4] = proof.pos
    /\ \/ /\ vres.args[1] = proof.value
          /\ (vres.args[2] # proof.root) # (vres.args[3] # proof.hash)
       \/ /\ vres.args[1] \in ChangedProofs(proof.value)
          /\ vres.args[2] = proof.root
          /\ vres.args[3] = proof.hash

\* C17: a proof that verifies for (root, hash, leaf index) is rejected with
\* RootMismatch when the root, the hash or a single proof field (mmr_size,
\* one path hash, one peak hash) is changed to a different value.
C17_TamperRejected == VerifiedChanged => vres.err = "RootMismatch"

\* the results verify may report
VerifyResults == {"ok", "Unexpected", "IncorrectPeakMap", "RootMismatch"}

\* C18: verify never aborts: for every proof value, root, hash and position
\* it returns Ok, Unexpected, IncorrectPeakMap or RootMismatch, also when the
\* walked-up position is not a peak of mmr_size.
C18_VerifyNeverPanics ==
    vres.op \in {"verify", "verify_leaf"} => vres.err \in VerifyResults

\* ------------------------------------------------------------------------
\* Properties of the pruned MMR
\* ------------------------------------------------------------------------

\* C19: for an MMR M of any size, the empty one included, and any hashes
\* appended afterwards, prune_mmr(M) followed by those pushes has after every
\* push the len() and the merkle root of an unpruned MMR that received the
\* same pushes.
C19_PrunedEquivalence ==
    /\ pmmr # None
    /\ StLen(pmmr) = StLen(vmmr)
    /\ MmrRoot(pmmr) = MmrRoot(vmmr)
    /\ vres.op = "push" => vres.err = "ok"

\* a three-leaf MMR with two different peaks was pruned and two leaves were
\* pushed, the first of which merged with both peaks
C19_Witness ==
    /\ pmmr # None
    /\ pmmr.base_offset = 4
    /\ pmmr.peak_hashes[1] # hash_with(pmmr.peak_hashes[2], pmmr.peak_hashes[2])
    /\ Len(LeavesOf(pmmr.hashes)) = 2
    /\ vres.op = "push"

\* the number of leaves of the MMR that was pruned
BaseLeafCount == Len(LeavesOf(SubSeq(vmmr.hashes, 1, pmmr.base_offset)))

\* C20: on a pruned MMR get_leaf_hash returns None for every leaf index
\* below the leaf count of the base it was pruned from, and the pushed hash
\* for every leaf added after pruning.
C20_PrunedLeafHash ==
    vres.op = "get_leaf_hash" =>
        LET k == vres.args[1]
            leaves == LeavesOf(vmmr.hashes)
        IN  /\ k < BaseLeafCount => vres.ret = None
            /\ (k >= BaseLeafCount /\ k < Len(leaves)) => vres.ret = leaves[k + 1]

\* ------------------------------------------------------------------------
\* Properties of the mutable MMR, its snapshots and the calculated roots
\* ------------------------------------------------------------------------

\* C21: calculate_pruned_mmr_root(src, additions, deletions) returns the
\* root src has after the additions are pushed onto it in order and every
\* listed index is then deleted, calculate_mmr_root(src, additions) returns
\* the root of src's MMR after the additions are pushed, and neither call
\* changes src
C21_CalculatedRoots ==
    [][/\ vres'.op = "calculate_pruned_mmr_root" =>
              /\ ma' = ma
              /\ \E pushed \in {MutPushAll(ma, vres'.args[1])} :
                     /\ vres'.err = pushed.err
                     /\ pushed.err = "ok" =>
                            vres'.ret = MutRoot(MutDeleteAll(pushed.m, vres'.args[2]))
       /\ vres'.op = "calculate_mmr_root" =>
              /\ ma' = ma
              /\ \E pushed \in {MmrPushAll(ma.mmr, vres'.args[1])} :
                     /\ vres'.err = pushed.err
                     /\ pushed.err = "ok" => vres'.ret = MmrRoot(pushed.st)]_vars

\* a root was calculated for a source with leaves, with additions and with a
\* deletion that took effect
C21_Witness ==
    /\ vres.op = "calculate_pruned_mmr_root"
    /\ vres.err = "ok"
    /\ ma.size >= 1
    /\ Len(vres.args[1]) >= 1
    /\ Len(vres.args[2]) >= 1
    /\ vres.ret # MutRoot(MutPushAll(ma, vres.args[1]).m)

\* C22: delete(k) of a live leaf k < size returns true and makes len() one
\* less; a delete of a deleted leaf or of an index >= size returns false and
\* changes neither len(), is_empty() nor the merkle root. A step that changes
\* neither the MMR nor the call made repeats a delete that returned false
C22_DeleteIdempotent ==
    [][vres'.op = "delete_and_compress" =>
           IF vres'.args[1] < ma.size /\ vres'.args[1] \notin ma.deleted.bits
           THEN vres'.ret = TRUE /\ MutLen(ma') = MutLen(ma) - 1
           ELSE /\ vres'.ret = FALSE
                /\ MutLen(ma') = MutLen(ma)
                /\ MutIsEmpty(ma') = MutIsEmpty(ma)
                /\ MutRoot(ma') = MutRoot(ma)]_<<ma, vres.op, vres.args>>

\* C23: every index of the deleted set is below size, size is the leaf count
\* of the inner MMR, and len() is size - cardinality(deleted), which does not
\* go below zero
C23_DeletedBelowSize ==
    /\ \A k \in ma.deleted.bits : k < ma.size
    /\ ma.size = MmrLeafCount(ma.mmr)
    /\ Cardinality(ma.deleted.bits) <= ma.size
    /\ MutLen(ma) = ma.size - Cardinality(ma.deleted.bits)

\* the root of the inner MMR, the zero hash when it is empty
InnerRoot(m) == IF StLen(m.mmr) = 0 THEN null_hash ELSE MmrRoot(m.mmr)

\* the indices that are in one of the two sets only
SymDiff(A, B) == (A \ B) \cup (B \ A)

C25_BitmapCanonicity ==
    (/\ vres.op = "get_merkle_root"
     /\ ma.mmr = mb.mmr
     /\ ma.deleted.bits = mb.deleted.bits) => vres.ret[1] = vres.ret[2]

\* what was read covers every leaf of the MMR it was read from
CoversAll == msnap.first = 0 /\ msnap.count = MutGetLeafCount(msnap.of)

\* C26: restore of s = to_leaf_nodes(0, get_leaf_count()), after further
\* pushes and deletes, gives back the merkle root, the leaf count and the
\* deleted set the MMR had when s was read, and to_leaf_nodes(0,
\* get_leaf_count()) then equals s
C26_MutableRestoreRoundTrip ==
    (vres.op = "restore" /\ CoversAll) =>
        /\ vres.err = "ok"
        /\ MutRoot(ma) = MutRoot(msnap.of)
        /\ MutGetLeafCount(ma) = MutGetLeafCount(msnap.of)
        /\ ma.deleted.bits = msnap.of.deleted.bits
        /\ \A overflow_checks \in BOOLEAN :
               \E again \in {to_leaf_nodes(ma, 0, MutGetLeafCount(ma),
                                           overflow_checks)} :
                   again.err = "ok" /\ LeafNodesEq(again.state, msnap.state)

\* an MMR with leaves and deletions was restored after it had got more
\* leaves and other deletions
C26_Witness ==
    /\ vres.op = "restore"
    /\ CoversAll
    /\ msnap.of.size >= 2
    /\ msnap.of.deleted.bits # {}
    /\ vres.args[1] > msnap.of.size
    /\ vres.args[2] # msnap.of.deleted.bits

\* C27: the results of to_leaf_nodes on consecutive ranges that split
\* [0, leaf_count), combined in order, equal to_leaf_nodes(0, leaf_count):
\* the same leaf hashes and the same deleted set
C27_CombineParts ==
    (msnap.parts >= 1 /\ CoversAll) =>
        LeafNodesEq(msnap.state,
                    to_leaf_nodes(msnap.of, 0, MutGetLeafCount(msnap.of),
                                  FALSE).state)

\* three parts of an MMR with deletions were combined
C27_Witness ==
    /\ msnap.parts >= 3
    /\ CoversAll
    /\ Cardinality(msnap.of.deleted.bits) >= 2

\* C28: MutableMmr::push at size = u32::MAX returns MaximumSizeReached and
\* changes neither the inner MMR, the size nor the deleted set, and the size
\* of a MutableMmr never exceeds u32::MAX
C28_MaximumSize ==
    /\ [](mmr.size <= U32_MAX /\ base.size <= U32_MAX)
    /\ [][(res'.op = "push" /\ mmr.size = U32_MAX) =>
              (res'.ret = "MaximumSizeReached" /\ mmr' = mmr)]_vars

\* a push was refused at the ceiling
C28_Witness ==
    /\ res.op = "push"
    /\ res.ret = "MaximumSizeReached"
    /\ mmr.size = U32_MAX

\* the two MMRs hold the same leaf hashes and the same deleted set
SameLeavesAndDeleted ==
    /\ LeavesOf(ma.mmr.hashes) = LeavesOf(mb.mmr.hashes)
    /\ ma.deleted.bits = mb.deleted.bits

\* C29: two MutableMmr values compare equal iff their merkle roots are
\* equal, which is iff they hold the same leaf hash sequence and the same
\* deleted set
C29_Equality ==
    vres.op = "eq" =>
        /\ vres.ret <=> (MutRoot(ma) = MutRoot(mb))
        /\ vres.ret <=> SameLeavesAndDeleted

\* ------------------------------------------------------------------------
\* Properties of the MemBackendVec
\* ------------------------------------------------------------------------

\* the calls made on both backends
BackendOps == {"len", "push", "get", "truncate", "shift", "for_each", "clear"}

\* C30: under the same calls the MemBackendVec and the Vec hold the same
\* items and return the same lengths, indices and values; get past the end
\* returns None; shift(n) with n > len removes every item without an error
C30_MemBackendVecIsVec ==
    /\ db_vec.db = mem_vec
    /\ vres.op \in BackendOps =>
           /\ vres.err = "ok"
           /\ vres.ret[1] = vres.ret[2]
    /\ (vres.op = "get" /\ vres.args[1] >= MemLen(db_vec)) =>
           vres.ret[1] = None
    /\ (vres.op = "shift" /\ vres.args[1] > vres.args[2]) =>
           (vres.ret[1] = "ok" /\ MemLen(db_vec) = 0)

\* shift(n) was called with n above the length of a backend that held items
C30_Witness ==
    /\ vres.op = "shift"
    /\ vres.args[2] >= 2
    /\ vres.args[1] > vres.args[2]

\* ------------------------------------------------------------------------
\* Properties of the cache-style update
\* ------------------------------------------------------------------------

\* the mmr-only root of an MMR built by applying the checkpoints of the log
\* in order
RootOfLog(log) ==
    MutMmrOnlyRoot(ApplyAll(MutNew(VecStorage(<<>>)), log.db).m)

C32_RestoreShowsRestoredBase ==
    (res.op = "restore" /\ res.ret = "ok")
        => /\ checkpoint_count = 0
           /\ current_additions = <<>>
           /\ current_deletions.bits = {}
           /\ MutRoot(mmr) = MutRoot(base)
           /\ MutGetLeafCount(mmr) = MutGetLeafCount(base)

\* the node counts of the MMRs that pushes build: the MMR of k leaves has
\* leaf_index(k) nodes
ValidMmrSize(n) == \E k \in 0..n : leaf_index(k) = n

\* C33: when the inner MMR's push fails, MutableMmr::push returns that
\* error and leaves size unchanged, and the tracker's pending additions
\* hold only hashes that were appended to the current MMR
C33_PushErrorsReachTheCaller ==
    /\ (vres.op = "push" /\ ~ValidMmrSize(StLen(ma.mmr)))
           => (vres.err = "CorruptDataStructure" /\ ma.size = 0)
    /\ current_additions = LeavesOf(mmr.mmr.hashes)

\* ------------------------------------------------------------------------
\* Properties of an MMR over a stored Vec
\* ------------------------------------------------------------------------

\* C40: a push on an MMR whose storage length is not the node count of an
\* MMR returns CorruptDataStructure and appends no hash
C40_CorruptPushAppendsNothing ==
    [][(vres'.op = "push" /\ ~ValidMmrSize(StLen(vmmr)))
           => (vres'.err = "CorruptDataStructure" /\ vmmr' = vmmr)]_vars

\* a push was refused on a storage of two hashes
C40_Witness ==
    /\ vres.op = "push"
    /\ vres.err = "CorruptDataStructure"
    /\ vmmr = Stored(2)

\* C34: get_leaf_hashes(first, count) returns the hashes of the leaves
\* first .. min(first + count, leaf_count) - 1 in order, for every count
\* from 0 on, and the empty list when first is not below leaf_count
C34_LeafHashesOfRange ==
    vres.op = "get_leaf_hashes"
        => vres.ret = SubSeq(LeavesOf(vmmr.hashes), vres.args[1] + 1,
                             Min(vres.args[1] + vres.args[2],
                                 MmrLeafCount(vmmr)))

\* ------------------------------------------------------------------------
\* Properties of MutableMmr read in ranges and under deletes
\* ------------------------------------------------------------------------

\* C35: to_leaf_nodes(first, count) never fails, and returns the leaf
\* hashes of [first, first + count) clamped to the leaves there are, with
\* the deleted indices of the source that lie in that range
C35_LeafNodesOfRange ==
    vres.op = "to_leaf_nodes"
        => /\ vres.err = "ok"
           /\ msnap.state.leaf_hashes
                  = SubSeq(LeavesOf(ma.mmr.hashes), vres.args[1] + 1,
                           Min(vres.args[1] + vres.args[2],
                               MmrLeafCount(ma.mmr)))
           /\ msnap.state.deleted.bits
                  = {k \in ma.deleted.bits :
                         /\ vres.args[1] <= k
                         /\ k < vres.args[1] + vres.args[2]}

\* ------------------------------------------------------------------------
\* Properties of the reads a pruned MMR makes
\* ------------------------------------------------------------------------

\* an index the pruned hash set answers: a peak kept from before the
\* base offset, or an index of the tail pushed since
Retained(s, index) ==
    \/ index < s.base_offset /\ PeakSlot(s, index) # {}
    \/ index >= s.base_offset /\ index < StLen(s)

\* C36: on an MMR over a PrunedHashSet taken from an MMR built by pushes
\* and pushed to since, no push and no get_merkle_root panics, and every
\* peak that get_merkle_root reads is a kept peak or an index of the tail
C36_PrunedReadsAreRetained ==
    /\ pmmr # None
    /\ vres.op \in {"push", "get_merkle_root"} => vres.err = "ok"
    /\ \A n \in 1..Len(find_peaks(StLen(pmmr))) :
           Retained(pmmr, find_peaks(StLen(pmmr))[n])

\* the merkle root was read where one peak is kept from before the base
\* offset and another is in the tail
C36_Witness ==
    /\ vres.op = "get_merkle_root"
    /\ vres.err = "ok"
    /\ \E n \in 1..Len(find_peaks(StLen(pmmr))) :
           find_peaks(StLen(pmmr))[n] < pmmr.base_offset
    /\ \E n \in 1..Len(find_peaks(StLen(pmmr))) :
           find_peaks(StLen(pmmr))[n] >= pmmr.base_offset

\* C37: delete and delete_and_compress leave get_mmr_only_root(),
\* get_leaf_count() and the hash of get_leaf_status(k) of every leaf as
\* they were, and after a delete of leaf k that returned true
\* get_leaf_hash(k) is None while get_leaf_status(k) is the hash the leaf
\* had with the deleted flag set
C37_DeleteKeepsInnerMmr ==
    [][vres'.op = "delete_and_compress"
           => /\ MutMmrOnlyRoot(ma') = MutMmrOnlyRoot(ma)
              /\ MutGetLeafCount(ma') = MutGetLeafCount(ma)
              /\ \A k \in 0..MaxDeleteLeaves :
                     get_leaf_status(ma', k)[1] = get_leaf_status(ma, k)[1]
              /\ \A k \in 0..MaxDeleteLeaves :
                     (vres'.args[1] = k /\ vres'.ret)
                         => /\ MutGetLeafHash(ma', k) = None
                            /\ get_leaf_status(ma, k)[1] # None
                            /\ get_leaf_status(ma', k)
                                   = <<get_leaf_status(ma, k)[1], TRUE>>]_ma

\* the first of two leaves was deleted and is still stored
C37_Witness ==
    /\ vres.op = "delete_and_compress"
    /\ vres.args[1] = 0
    /\ vres.ret = TRUE
    /\ MutGetLeafCount(ma) = 2
    /\ MutGetLeafHash(ma, 0) = None
    /\ get_leaf_status(ma, 0) = <<int_to_hash(0), TRUE>>

\* ------------------------------------------------------------------------
\* Properties of a proof verified for other nodes
\* ------------------------------------------------------------------------

\* the call was a verify of the proof built by for_node on the MMR as it
\* is, with the root of that MMR
VerifiedOfCurrent ==
    /\ vres.op = "verify"
    /\ proof # NoProof
    /\ proof.value.mmr_size = StLen(vmmr)
    /\ vres.args[1] = proof.value
    /\ vres.args[2] = proof.root

\* C38: the proof that for_node built on an MMR with root r verifies
\* against r only for a hash and a node position such that the MMR stores
\* that hash at that position; for every other hash and position, another
\* leaf of the same subtree and non-leaf positions included, verify
\* returns an error
C38_ProofUnforgeable ==
    (VerifiedOfCurrent
     /\ get_node_hash(vmmr, vres.args[4]) # vres.args[3])
        => vres.err \in {"Unexpected", "IncorrectPeakMap", "RootMismatch"}

\* ------------------------------------------------------------------------
\* Properties of the log length under push, delete and commit
\* ------------------------------------------------------------------------

\* C39: once checkpoint_count() has reached min_history_len no push,
\* delete or commit brings it below, and a commit made with
\* max_history_len checkpoints in the log leaves exactly min_history_len
C39_HistoryFloor ==
    [][/\ checkpoint_count >= config.min_history_len
           => checkpoint_count' >= config.min_history_len
       /\ (res'.op = "commit" /\ checkpoint_count = config.max_history_len)
           => checkpoint_count' = config.min_history_len]_checkpoints

\* a commit promoted two checkpoints with leaves into the base and left one
C39_Witness ==
    /\ res.op = "commit"
    /\ res.ret = "ok"
    /\ config.min_history_len = 1
    /\ config.max_history_len = 2
    /\ checkpoint_count = 1
    /\ MutGetLeafCount(base) = 2

====
